---- MODULE Spec2Model ----
(***************************************************************************)
(* A model of napcat-plugin-pixiv: the banned-word matcher, the filter and *)
(* extraction stage, the acquisition sessions (searchTop3, getRandomTop3)  *)
(* and the command handler in front of them.                               *)
(*                                                                         *)
(* Strings are sequences of one-character strings.  A JavaScript value     *)
(* that may be undefined is modelled with a sentinel of the same type;     *)
(* an empty string stands for every falsy string (absent, "").             *)
(***************************************************************************)
EXTENDS Integers, Sequences, FiniteSets, TLC

(***************************************************************************)
(* Bounds of the model.                                                    *)
(***************************************************************************)
\* the longest rule list the CRUD operations build
MaxRules == 2
\* the number of rule ids randomUUID hands out
MaxIds == 3
\* the longest raw batch handed to extractTopSafe on its own
MaxBatch == 3
\* the largest configured resultCount
MaxCount == 2
\* the number of configuration and rule changes made while sessions run
MaxEnvChanges == 1
\* the number of messages handleMessage receives
MaxMessages == 2
\* the number of messages that meet the gates of handleMessage
MaxChecks == 4
\* the number of calls of downloadImage made on their own
MaxFetches == 3

\* undefined, for a numeric field that is absent
undefined == -1

VARIABLES
    words,      \* BannedWordsService.words: the in-memory rule list
    loaded,     \* BannedWordsService.loaded
    dataFile,   \* the content of banned-words.json
    nextId,     \* the next id randomUUID returns
    lastOp,     \* the last call on the service and what it returned
    config,     \* pluginState.config
    exBatch,    \* extractTopSafe: the raw batch passed in
    exShuffle,  \* extractTopSafe: the shuffle argument
    exOrder,    \* extractTopSafe: the list the loop iterates (after the shuffle)
    exOut,      \* extractTopSafe: the ExtractResult returned
    isLoggedIn, \* PixivService.isLoggedIn
    bgInit,     \* the init() a configuration hook started and that awaits login
    ses,        \* the locals of the running searchTop3 / getRandomTop3
    obs,        \* what the running session did so far (calls issued, ...)
    envChanges, \* the number of configuration and rule changes made so far
    now,        \* Date.now(), in milliseconds
    requestTimestamps, \* message-handler: the admitted checks of the window
    cooldownMap, \* message-handler: group -> expiry time
    tempFiles,  \* the file names in the temporary image directory
    cmd,        \* the p站 command that is past the gates and awaits something
    sent,       \* the latest message handled or answered, and the reply sent
    msgCount,   \* the number of messages received so far
    processed,  \* pluginState.stats.processed
    hist,       \* what the gates admitted so far, and when
    fetches     \* the calls of downloadImage made on their own, in call order

wordsVars == <<words, loaded, dataFile, nextId, lastOp>>

extractVars == <<exBatch, exShuffle, exOrder, exOut>>

serviceVars == <<isLoggedIn, bgInit, ses, obs, envChanges>>

\* the handler's variables that a configuration change leaves alone
handlerRest == <<now, requestTimestamps, tempFiles, cmd, sent, msgCount,
                 processed, hist, fetches>>

handlerVars == <<now, requestTimestamps, cooldownMap, tempFiles, cmd, sent,
                 msgCount, processed, hist, fetches>>

vars == <<words, loaded, dataFile, nextId, lastOp, config,
          exBatch, exShuffle, exOrder, exOut, isLoggedIn, bgInit, ses, obs,
          envChanges, now, requestTimestamps, cooldownMap, tempFiles, cmd, sent,
          msgCount, processed, hist, fetches>>

(***************************************************************************)
(* Strings.                                                                *)
(***************************************************************************)
\* String.prototype.toLowerCase on one character of the model's alphabet
LowerChar(c) ==
    IF c = "A" THEN "a" ELSE IF c = "B" THEN "b" ELSE c

\* a lower-casing that leaves the string as it is
toLowerCase_asIs(s) == s

toLowerCase(s) == [i \in 1..Len(s) |-> LowerChar(s[i])]

\* String.prototype.includes: p occurs in t at some offset
includes(t, p) ==
    \E off \in 0..(Len(t) - Len(p)) :
        \A k \in 1..Len(p) : t[off + k] = p[k]

\* new RegExp(pattern): the patterns of the model are made of literal
\* letters, "." and "("; there is no ")" to close a group, so a pattern
\* compiles exactly when it has no "(" (otherwise: SyntaxError).
RegExpCompiles(pattern) ==
    \A k \in 1..Len(pattern) : pattern[k] # "("

\* new RegExp(pattern, 'i').test(text), for a pattern that compiles: an
\* unanchored search in the original-case text, letters compared without
\* case, "." matching any character.
RegExpTest(pattern, text) ==
    \E off \in 0..(Len(text) - Len(pattern)) :
        \A k \in 1..Len(pattern) :
            \/ pattern[k] = "."
            \/ LowerChar(pattern[k]) = LowerChar(text[off + k])

(***************************************************************************)
(* Banned words (banned-words.service.ts).                                 *)
(***************************************************************************)
MatchTypes == {"regex", "exact", "fuzzy"}

\* the patterns a user submits
Patterns == { <<"B">>, <<"a", ".">>, <<"(">> }

\* the texts that are checked (keywords, titles, tag names)
Texts == { <<"a">>, <<"b">>, <<"A", "b">>, <<"b", "a">> }

\* null, as returned by matchText and update
Null == [id |-> 0, pattern |-> <<>>, matchType |-> "null", enabled |-> FALSE]

BannedWord(id, pattern, matchType, enabled) ==
    [id |-> id, pattern |-> pattern, matchType |-> matchType, enabled |-> enabled]

\* ensureLoaded: the rule list the service works on after the lazy load
ensureLoaded == IF loaded THEN words ELSE dataFile

\* getEnabled without its filter
getEnabled_all(ws) == ws

\* getEnabled (on a loaded list)
getEnabled(ws) == SelectSeq(ws, LAMBDA w : w.enabled)

\* one case of the switch of matchText, inside its try/catch: a regex that
\* does not compile throws, is logged, and the loop goes on
WordHits(word, text) ==
    CASE word.matchType = "exact" ->
            toLowerCase(text) = toLowerCase(word.pattern)
      [] word.matchType = "fuzzy" ->
            includes(toLowerCase(text), toLowerCase(word.pattern))
      [] word.matchType = "regex" ->
            IF RegExpCompiles(word.pattern)
            THEN RegExpTest(word.pattern, text)
            ELSE FALSE
      [] OTHER -> FALSE

\* a loop that an exception of new RegExp ends: nothing is returned
RECURSIVE matchLoop_endsOnThrow(_, _, _)
matchLoop_endsOnThrow(enabledWords, i, text) ==
    IF i > Len(enabledWords) THEN Null
    ELSE IF /\ enabledWords[i].matchType = "regex"
            /\ ~RegExpCompiles(enabledWords[i].pattern)
    THEN Null
    ELSE IF WordHits(enabledWords[i], text) THEN enabledWords[i]
    ELSE matchLoop_endsOnThrow(enabledWords, i + 1, text)

\* the for loop of matchText
RECURSIVE matchLoop(_, _, _)
matchLoop(enabledWords, i, text) ==
    IF i > Len(enabledWords) THEN Null
    ELSE IF WordHits(enabledWords[i], text) THEN enabledWords[i]
    ELSE matchLoop(enabledWords, i + 1, text)

\* matchText on the rule list ws
matchText(ws, text) == matchLoop(getEnabled(ws), 1, text)

\* checkKeyword on the rule list ws
checkKeywordOn(ws, keyword) == matchText(ws, keyword)

NoOp ==
    [op |-> "none", ok |-> TRUE, text |-> <<>>, matchType |-> "none", id |-> 0,
     hit |-> Null, saved |-> FALSE]

\* the configurations of the model
Configs ==
    [r18Enabled : BOOLEAN, sensitiveEnabled : BOOLEAN,
     resultCount : {undefined} \cup 1..MaxCount,
     pixivRefreshToken : {"", "bad", "good"},
     rateLimitPerMinute : {undefined, 0, 1, 2},
     cooldownSeconds : {undefined, 2}]

NoResult ==
    [illusts |-> <<>>, totalScanned |-> undefined, r18Filtered |-> 0,
     sensitiveFiltered |-> 0, bannedFiltered |-> 0]

\* the locals of searchTop3 / getRandomTop3 when no session runs
NoSession ==
    [pc |-> "idle", kind |-> "none", keyword |-> <<>>, token |-> "",
     attempt |-> 0, requiredCount |-> 0, collectedMap |-> <<>>,
     totalScanned |-> 0, totalR18Filtered |-> 0, totalSensitiveFiltered |-> 0,
     totalBannedFiltered |-> 0, offsetLevel |-> 0, maxOffset |-> 0,
     randomOffset |-> 0, result |-> NoResult]

\* r18Allowed / r18Denied: r18Enabled was true / false at some moment of the
\* session; likewise for sensitiveEnabled; rulesChanged: a rule was changed;
\* threw: an upstream call of the session was rejected
NoObs ==
    [calls |-> 0, logins |-> 0, r18Allowed |-> FALSE, r18Denied |-> FALSE,
     sensitiveAllowed |-> FALSE, sensitiveDenied |-> FALSE,
     rulesChanged |-> FALSE, threw |-> FALSE]

\* the service after construction, no init() pending
ServiceIdle ==
    /\ isLoggedIn = FALSE
    /\ bgInit = "idle"
    /\ ses = NoSession
    /\ obs = NoObs
    /\ envChanges = 0

\* the groups messages come from
Groups == {1, 2}

\* new Map(): no group has an entry
NoCooldowns == [g \in Groups |-> undefined]

\* an event that is no message
NoEvent ==
    [messageType |-> "none", group_id |-> undefined, user_id |-> undefined,
     groupEnabled |-> FALSE,
     prefixed |-> FALSE, sub |-> "", args |-> <<>>]

NoCommand ==
    [pc |-> "idle", seq |-> 0, event |-> NoEvent, keyword |-> <<>>,
     illusts |-> <<>>, downloadResults |-> <<>>, nodes |-> <<>>,
     downloads |-> 0]

NoReply ==
    [seq |-> 0, event |-> NoEvent, text |-> "none", remaining |-> 0,
     parts |-> <<>>]

\* admitted: the times of the rate-limit checks that were admitted while a
\* limit was configured; triggered: per group, the time of the latest ping or
\* p站 command the cooldown gate admitted while a cooldown was configured
NoHistory ==
    [admitted |-> <<>>, triggered |-> [g \in Groups |-> undefined],
     cleanup |-> "none"]

\* the message handler after module load
HandlerIdle ==
    /\ now = 0
    /\ requestTimestamps = <<>>
    /\ cooldownMap = NoCooldowns
    /\ tempFiles = {}
    /\ cmd = NoCommand
    /\ sent = NoReply
    /\ msgCount = 0
    /\ processed = 0
    /\ hist = NoHistory
    /\ fetches = <<>>

ExtractIdle ==
    /\ exBatch = <<>>
    /\ exShuffle = FALSE
    /\ exOrder = <<>>
    /\ exOut = NoResult

InitWords ==
    /\ words = <<>>
    /\ loaded = FALSE
    /\ dataFile = <<>>
    /\ nextId = 1
    /\ lastOp = NoOp
    /\ config = [r18Enabled |-> FALSE, sensitiveEnabled |-> FALSE,
                 resultCount |-> undefined, pixivRefreshToken |-> "",
                 rateLimitPerMinute |-> undefined, cooldownSeconds |-> undefined]
    /\ ExtractIdle
    /\ ServiceIdle
    /\ HandlerIdle

\* add(pattern, matchType) without the syntax check of the pattern
add_unchecked(pattern, matchType) ==
    /\ nextId <= MaxIds
    /\ Len(ensureLoaded) < MaxRules
    /\ loaded' = TRUE
    /\ LET word == BannedWord(nextId, pattern, matchType, TRUE) IN
       /\ words' = Append(ensureLoaded, word)
       /\ dataFile' = words'
       /\ nextId' = nextId + 1
       /\ lastOp' = [op |-> "add", ok |-> TRUE, text |-> pattern,
                     matchType |-> matchType, id |-> word.id, hit |-> word,
                     saved |-> TRUE]

\* add(pattern, matchType)
add(pattern, matchType) ==
    /\ nextId <= MaxIds
    /\ Len(ensureLoaded) < MaxRules
    /\ loaded' = TRUE
    /\ IF matchType = "regex" /\ ~RegExpCompiles(pattern)
       THEN /\ words' = ensureLoaded
            /\ UNCHANGED <<dataFile, nextId>>
            /\ lastOp' = [op |-> "add", ok |-> FALSE, text |-> pattern,
                          matchType |-> matchType, id |-> 0, hit |-> Null,
                          saved |-> FALSE]
       ELSE LET word == BannedWord(nextId, pattern, matchType, TRUE) IN
            /\ words' = Append(ensureLoaded, word)
            /\ dataFile' = words'
            /\ nextId' = nextId + 1
            /\ lastOp' = [op |-> "add", ok |-> TRUE, text |-> pattern,
                          matchType |-> matchType, id |-> word.id,
                          hit |-> word, saved |-> TRUE]

\* the index of the rule with this id, 0 when there is none (find, findIndex)
findIndex(ws, id) ==
    IF \E i \in 1..Len(ws) : ws[i].id = id
    THEN CHOOSE i \in 1..Len(ws) :
            /\ ws[i].id = id
            /\ \A j \in 1..(i - 1) : ws[j].id # id
    ELSE 0

\* the objects passed as `updates`: has is the set of keys that are present
\* (a key that is absent carries a fixed filler value that is never read)
Updates ==
    { u \in [has : SUBSET {"pattern", "matchType", "enabled"},
             pattern : Patterns, matchType : MatchTypes, enabled : BOOLEAN] :
        /\ "pattern" \notin u.has => u.pattern = <<"B">>
        /\ "matchType" \notin u.has => u.matchType = "exact"
        /\ "enabled" \notin u.has => u.enabled = TRUE }

\* updates.matchType ?? word.matchType
newMatchTypeOf(word, updates) ==
    IF "matchType" \in updates.has THEN updates.matchType ELSE word.matchType

\* updates.pattern ?? word.pattern
newPatternOf(word, updates) ==
    IF "pattern" \in updates.has THEN updates.pattern ELSE word.pattern

\* a syntax check that looks at a pattern only when the update carries one
updateThrows_submittedOnly(word, updates) ==
    /\ newMatchTypeOf(word, updates) = "regex"
    /\ "pattern" \in updates.has
    /\ ~RegExpCompiles(updates.pattern)

\* the syntax check of update: new RegExp(newPattern) throws
updateThrows(word, updates) ==
    /\ newMatchTypeOf(word, updates) = "regex"
    /\ ~RegExpCompiles(newPatternOf(word, updates))

\* update(id, updates)
update(id, updates) ==
    LET ws == ensureLoaded
        idx == findIndex(ws, id)
    IN
    /\ loaded' = TRUE
    /\ UNCHANGED nextId
    /\ IF idx = 0
       THEN /\ words' = ws
            /\ UNCHANGED dataFile
            /\ lastOp' = [op |-> "update", ok |-> TRUE, text |-> <<>>,
                          matchType |-> "none", id |-> id, hit |-> Null,
                          saved |-> FALSE]
       ELSE LET word == ws[idx]
                newMatchType == newMatchTypeOf(word, updates)
                newPattern == newPatternOf(word, updates)
                newEnabled == IF "enabled" \in updates.has
                              THEN updates.enabled ELSE word.enabled
            IN
            IF updateThrows(word, updates)
            THEN /\ words' = ws
                 /\ UNCHANGED dataFile
                 /\ lastOp' = [op |-> "update", ok |-> FALSE, text |-> newPattern,
                               matchType |-> newMatchType, id |-> id,
                               hit |-> Null, saved |-> FALSE]
            ELSE LET updated == BannedWord(word.id, newPattern, newMatchType,
                                           newEnabled) IN
                 /\ words' = [ws EXCEPT ![idx] = updated]
                 /\ dataFile' = words'
                 /\ lastOp' = [op |-> "update", ok |-> TRUE, text |-> newPattern,
                               matchType |-> newMatchType, id |-> id,
                               hit |-> updated, saved |-> TRUE]

\* a removal that drops the last rule whatever the index
splice_last(ws, idx) == SubSeq(ws, 1, Len(ws) - 1)

\* splice(idx, 1)
splice(ws, idx) ==
    [i \in 1..(Len(ws) - 1) |-> IF i < idx THEN ws[i] ELSE ws[i + 1]]

\* remove(id)
remove(id) ==
    LET ws == ensureLoaded
        idx == findIndex(ws, id)
    IN
    /\ loaded' = TRUE
    /\ UNCHANGED nextId
    /\ IF idx = 0
       THEN /\ words' = ws
            /\ UNCHANGED dataFile
            /\ lastOp' = [op |-> "remove", ok |-> FALSE, text |-> <<>>,
                          matchType |-> "none", id |-> id, hit |-> Null,
                          saved |-> FALSE]
       ELSE /\ words' = splice(ws, idx)
            /\ dataFile' = words'
            /\ lastOp' = [op |-> "remove", ok |-> TRUE, text |-> ws[idx].pattern,
                          matchType |-> "none", id |-> id, hit |-> ws[idx],
                          saved |-> TRUE]

\* reload()
reload ==
    /\ words' = dataFile
    /\ loaded' = TRUE
    /\ UNCHANGED <<dataFile, nextId>>
    /\ lastOp' = [op |-> "reload", ok |-> TRUE, text |-> <<>>,
                  matchType |-> "none", id |-> 0, hit |-> Null, saved |-> FALSE]

\* checkKeyword(keyword)
checkKeyword(keyword) ==
    /\ words' = ensureLoaded
    /\ loaded' = TRUE
    /\ UNCHANGED <<dataFile, nextId>>
    /\ lastOp' = [op |-> "checkKeyword", ok |-> TRUE, text |-> keyword,
                  matchType |-> "none", id |-> 0,
                  hit |-> checkKeywordOn(ensureLoaded, keyword),
                  saved |-> FALSE]

WordsCall ==
    \/ \E p \in Patterns, t \in MatchTypes : add(p, t)
    \/ \E id \in 1..MaxIds, u \in Updates : update(id, u)
    \/ \E id \in 1..MaxIds : remove(id)
    \/ reload
    \/ \E k \in Texts : checkKeyword(k)

NextWords ==
    WordsCall /\ UNCHANGED <<config, extractVars, serviceVars, handlerVars>>

SpecWords == InitWords /\ [][NextWords]_vars

(***************************************************************************)
(* C1.  checkKeyword returns the first rule, in stored order, that is      *)
(* enabled and whose pattern matches the text, and null when no enabled    *)
(* rule matches; a disabled rule is never returned.                        *)
(***************************************************************************)
EnabledMatches(ws, text) ==
    { i \in 1..Len(ws) : ws[i].enabled /\ WordHits(ws[i], text) }

C1_FirstEnabledMatch ==
    lastOp.op = "checkKeyword" =>
        LET hits == EnabledMatches(words, lastOp.text) IN
        /\ hits = {} => lastOp.hit = Null
        /\ hits # {} =>
              \E i \in hits :
                  /\ \A j \in hits : i <= j
                  /\ lastOp.hit = words[i]
        /\ lastOp.hit # Null => lastOp.hit.enabled

\* a disabled matching rule stands before the enabled rule that is returned
C1_Witness ==
    /\ lastOp.op = "checkKeyword"
    /\ Len(words) = 2
    /\ ~words[1].enabled
    /\ WordHits(words[1], lastOp.text)
    /\ words[2].enabled
    /\ lastOp.hit = words[2]

(***************************************************************************)
(* Filter and extraction (pixiv.service.ts, extractTopSafe).               *)
(***************************************************************************)
\* a raw illust as the client returns it; original is
\* metaSinglePage.originalImageUrl, large and medium are imageUrls.*,
\* userName is user.name
Illust(id, title, userName, xRestrict, sanityLevel, sanity_level, tags, original, large, medium) ==
    [id |-> id, title |-> title, userName |-> userName, xRestrict |-> xRestrict,
     sanityLevel |-> sanityLevel, sanity_level |-> sanity_level, tags |-> tags,
     original |-> original, large |-> large, medium |-> medium]

\* an image url is <<directory, file name>>; NoUrl when the field is absent
NoUrl == <<>>

\* the raw illusts the upstream feed serves
Work1 == Illust(1, <<"a">>, "ann", 0, 2, undefined, <<>>, <<"i", "o1.png">>, <<"i", "l1.png">>, NoUrl)
\* (id 1 again, as a later response shows it)
Work1b == Illust(1, <<"a">>, "", undefined, undefined, undefined, <<>>, NoUrl, <<"i", "l1.png">>, <<"i", "m1.png">>)
Work2 == Illust(2, <<"b">>, "bob", 1, 6, undefined, <<>>, <<"i", "o2.png">>, NoUrl, NoUrl)
Work3 == Illust(3, <<"a">>, "cy", undefined, undefined, 4, <<<<"A", "b">>>>, NoUrl, NoUrl, <<"i", "m3.png">>)
Work4 == Illust(4, <<"a">>, "dan", 0, 2, undefined, << <<>>, <<"b", "a">> >>, <<"i", "o4.png">>, NoUrl, NoUrl)
Work5 == Illust(5, <<>>, "eve", 0, 0, undefined, <<>>, NoUrl, NoUrl, NoUrl)
Work6 == Illust(6, <<"a">>, "fay", 2, 3, undefined, <<>>, NoUrl, NoUrl, <<"i", "m6.png">>)

Work7 == Illust(7, <<"c">>, "gil", 0, 2, undefined, <<>>, NoUrl, <<"i", "l7.png">>, NoUrl)

Works == {Work1, Work1b, Work2, Work3, Work4, Work5, Work6}

\* the works the feed of a session serves
FeedWorks == Works \cup {Work7}

\* the sequences over S of length at most n
SeqsUpTo(S, n) == UNION { [1..k -> S] : k \in 0..n }

\* pluginState.config.resultCount ?? 3
resultCountOr3(cfg) == IF cfg.resultCount = undefined THEN 3 ELSE cfg.resultCount

\* Math.floor(Math.random() * (i + 1)) for i = n-1 .. 1: the draws of one shuffle
RandomDraws(n) ==
    { rnd \in [1..(n - 1) -> 0..(n - 1)] : \A i \in 1..(n - 1) : rnd[i] <= i }

\* [shuffled[i], shuffled[j]] = [shuffled[j], shuffled[i]] (indices from 0)
swap(shuffled, i, j) ==
    [shuffled EXCEPT ![i + 1] = shuffled[j + 1], ![j + 1] = shuffled[i + 1]]

\* the Fisher-Yates loop, from index i down to 1
RECURSIVE shuffleLoop(_, _, _)
shuffleLoop(shuffled, i, rnd) ==
    IF i <= 0 THEN shuffled
    ELSE shuffleLoop(swap(shuffled, i, rnd[i]), i - 1, rnd)

\* the list extractTopSafe iterates
shuffleOf(illusts, shuffle, rnd) ==
    IF shuffle /\ Len(illusts) > 0
    THEN shuffleLoop(illusts, Len(illusts) - 1, rnd)
    ELSE illusts

\* the R-18 test that takes only xRestrict = 1 for restricted
isR18Filtered_only1(cfg, illust) ==
    ~cfg.r18Enabled /\ illust.xRestrict = 1

\* the R-18 test of extractTopSafe
isR18Filtered(cfg, illust) ==
    ~cfg.r18Enabled /\ illust.xRestrict # 0 /\ illust.xRestrict # undefined

\* illust.sanityLevel ?? illust.sanity_level ?? 0
sanityLevelOf(illust) ==
    IF illust.sanityLevel # undefined THEN illust.sanityLevel
    ELSE IF illust.sanity_level # undefined THEN illust.sanity_level
    ELSE 0

\* the sensitivity test with > in place of >=
isSensitiveFiltered_above4(cfg, illust) ==
    ~cfg.sensitiveEnabled /\ sanityLevelOf(illust) > 4

\* the sensitivity test of extractTopSafe
isSensitiveFiltered(cfg, illust) ==
    ~cfg.sensitiveEnabled /\ sanityLevelOf(illust) >= 4

\* the loop over the tags of checkIllust
RECURSIVE checkTags(_, _, _)
checkTags(ws, tags, i) ==
    IF i > Len(tags) THEN Null
    ELSE IF tags[i] # <<>> /\ matchText(ws, tags[i]) # Null
         THEN matchText(ws, tags[i])
         ELSE checkTags(ws, tags, i + 1)

\* checkIllust that looks at the title only
checkIllustOn_titleOnly(ws, illust) ==
    IF illust.title # <<>> THEN matchText(ws, illust.title) ELSE Null

\* checkIllust on the rule list ws
checkIllustOn(ws, illust) ==
    IF illust.title # <<>> /\ matchText(ws, illust.title) # Null
    THEN matchText(ws, illust.title)
    ELSE checkTags(ws, illust.tags, 1)

\* the url choice without the medium fallback
imageUrlOf_noMedium(illust) ==
    IF illust.original # NoUrl THEN illust.original ELSE illust.large

\* the image url extractTopSafe picks, NoUrl when there is none
imageUrlOf(illust) ==
    IF illust.original # NoUrl THEN illust.original
    ELSE IF illust.large # NoUrl THEN illust.large
    ELSE illust.medium

\* the SafeIllust pushed to result
SafeIllust(illust) ==
    [id |-> illust.id, title |-> illust.title,
     userName |-> IF illust.userName # "" THEN illust.userName ELSE "unknown",
     imageUrl |-> imageUrlOf(illust)]

\* the loop with the sensitivity test put before the maturity test
RECURSIVE extractLoop_sensitiveFirst(_, _, _, _, _)
extractLoop_sensitiveFirst(cfg, ws, illusts, i, acc) ==
    IF i > Len(illusts) THEN acc
    ELSE IF Len(acc.illusts) >= resultCountOr3(cfg) THEN acc
    ELSE LET illust == illusts[i] IN
         IF isSensitiveFiltered(cfg, illust)
         THEN extractLoop_sensitiveFirst(cfg, ws, illusts, i + 1,
                          [acc EXCEPT !.sensitiveFiltered = @ + 1])
         ELSE IF isR18Filtered(cfg, illust)
         THEN extractLoop_sensitiveFirst(cfg, ws, illusts, i + 1,
                          [acc EXCEPT !.r18Filtered = @ + 1])
         ELSE IF checkIllustOn(ws, illust) # Null
         THEN extractLoop_sensitiveFirst(cfg, ws, illusts, i + 1,
                          [acc EXCEPT !.bannedFiltered = @ + 1])
         ELSE IF imageUrlOf(illust) = NoUrl
         THEN extractLoop_sensitiveFirst(cfg, ws, illusts, i + 1, acc)
         ELSE extractLoop_sensitiveFirst(cfg, ws, illusts, i + 1,
                          [acc EXCEPT !.illusts = Append(@, SafeIllust(illust))])

\* the for loop of extractTopSafe from position i on; acc holds result and
\* the three counters
RECURSIVE extractLoop(_, _, _, _, _)
extractLoop(cfg, ws, illusts, i, acc) ==
    IF i > Len(illusts) THEN acc
    ELSE IF Len(acc.illusts) >= resultCountOr3(cfg) THEN acc
    ELSE LET illust == illusts[i] IN
         IF isR18Filtered(cfg, illust)
         THEN extractLoop(cfg, ws, illusts, i + 1,
                          [acc EXCEPT !.r18Filtered = @ + 1])
         ELSE IF isSensitiveFiltered(cfg, illust)
         THEN extractLoop(cfg, ws, illusts, i + 1,
                          [acc EXCEPT !.sensitiveFiltered = @ + 1])
         ELSE IF checkIllustOn(ws, illust) # Null
         THEN extractLoop(cfg, ws, illusts, i + 1,
                          [acc EXCEPT !.bannedFiltered = @ + 1])
         ELSE IF imageUrlOf(illust) = NoUrl
         THEN extractLoop(cfg, ws, illusts, i + 1, acc)
         ELSE extractLoop(cfg, ws, illusts, i + 1,
                          [acc EXCEPT !.illusts = Append(@, SafeIllust(illust))])

\* extractTopSafe reporting only the items it handled as scanned
extractFrom_handled(cfg, ws, order) ==
    LET r == extractLoop(cfg, ws, order, 1,
                [illusts |-> <<>>, totalScanned |-> 0, r18Filtered |-> 0,
                 sensitiveFiltered |-> 0, bannedFiltered |-> 0])
    IN [r EXCEPT !.totalScanned = Len(r.illusts) + r.r18Filtered
                                  + r.sensitiveFiltered + r.bannedFiltered]

\* extractTopSafe on the list the loop iterates
extractFrom(cfg, ws, order) ==
    extractLoop(cfg, ws, order, 1,
                [illusts |-> <<>>, totalScanned |-> Len(order), r18Filtered |-> 0,
                 sensitiveFiltered |-> 0, bannedFiltered |-> 0])

\* whether the loop of extractTopSafe calls checkIllust, which loads the rules
RECURSIVE reachesCheckIllust(_, _, _, _)
reachesCheckIllust(cfg, order, i, accepted) ==
    IF i > Len(order) \/ accepted >= resultCountOr3(cfg) THEN FALSE
    ELSE IF isR18Filtered(cfg, order[i]) \/ isSensitiveFiltered(cfg, order[i])
    THEN reachesCheckIllust(cfg, order, i + 1, accepted)
    ELSE TRUE

\* the rule lists a running service holds
RuleSets ==
    { <<>>,
      << BannedWord(1, <<"B">>, "fuzzy", TRUE) >>,
      << BannedWord(1, <<"a", ".">>, "regex", FALSE),
         BannedWord(2, <<"B">>, "exact", TRUE) >> }

InitExtract ==
    /\ dataFile \in RuleSets
    /\ loaded \in BOOLEAN
    /\ words = IF loaded THEN dataFile ELSE <<>>
    /\ nextId = Len(dataFile) + 1
    /\ lastOp = NoOp
    /\ config \in { c \in Configs : /\ c.pixivRefreshToken = ""
                                    /\ c.rateLimitPerMinute = undefined
                                    /\ c.cooldownSeconds = undefined }
    /\ exBatch \in SeqsUpTo(Works, MaxBatch)
    /\ exShuffle \in BOOLEAN
    /\ exOrder = <<>>
    /\ exOut = NoResult
    /\ ServiceIdle
    /\ HandlerIdle

\* extractTopSafe(exBatch, exShuffle)
extractTopSafe ==
    /\ exOut = NoResult
    /\ \E rnd \in RandomDraws(Len(exBatch)) :
       \E shuffled \in {shuffleOf(exBatch, exShuffle, rnd)} :
          /\ exOrder' = shuffled
          /\ exOut' = extractFrom(config, ensureLoaded, shuffled)
          /\ IF reachesCheckIllust(config, shuffled, 1, 0)
             THEN words' = ensureLoaded /\ loaded' = TRUE
             ELSE UNCHANGED <<words, loaded>>
    /\ UNCHANGED <<dataFile, nextId, lastOp, config, exBatch, exShuffle>>

NextExtract == extractTopSafe /\ UNCHANGED <<serviceVars, handlerVars>>

SpecExtract == InitExtract /\ [][NextExtract]_vars

(***************************************************************************)
(* Acquisition sessions (pixiv.service.ts: init, ensureLoggedIn,           *)
(* searchTop3, getRandomTop3).  A session is suspended at its awaits: the  *)
(* login of ensureLoggedIn (pc = "login") and the upstream call of the     *)
(* current attempt (pc = "call").                                          *)
(***************************************************************************)
\* one more retry than maxRetries
maxRetriesOf_oneMore(kind) == IF kind = "search" THEN 6 ELSE 4

\* maxRetries of searchTop3 and of getRandomTop3
maxRetriesOf(kind) == IF kind = "search" THEN 5 ELSE 3

\* offsetLimits[k], k from 0
offsetLimits == <<300, 200, 100, 50, 0>>

\* a ceiling that goes down two places for every level
maxOffsetAt_twoPlaces(offsetLevel) ==
    offsetLimits[(IF 2 * offsetLevel < Len(offsetLimits) - 1
                  THEN 2 * offsetLevel ELSE Len(offsetLimits) - 1) + 1]

\* offsetLimits[Math.min(offsetLevel, offsetLimits.length - 1)]
maxOffsetAt(offsetLevel) ==
    offsetLimits[(IF offsetLevel < Len(offsetLimits) - 1
                  THEN offsetLevel ELSE Len(offsetLimits) - 1) + 1]

\* Math.random(), in thousandths
RandomUnits == {0, 999}

\* the offset rounded up instead of down
randomOffsetOf_ceil(maxOffset, rand) ==
    IF maxOffset > 0 THEN (rand * (maxOffset + 1) + 999) \div 1000 ELSE 0

\* maxOffset > 0 ? Math.floor(Math.random() * (maxOffset + 1)) : 0
randomOffsetOf(maxOffset, rand) ==
    IF maxOffset > 0 THEN (rand * (maxOffset + 1)) \div 1000 ELSE 0

\* collectedMap.has(id)
has(collectedMap, id) ==
    \E k \in 1..Len(collectedMap) : collectedMap[k].id = id

\* the merge loop that overwrites an entry already in the pool
RECURSIVE mergeLoop_overwrite(_, _, _)
mergeLoop_overwrite(collectedMap, illusts, i) ==
    IF i > Len(illusts) THEN collectedMap
    ELSE IF has(collectedMap, illusts[i].id)
    THEN mergeLoop_overwrite(
             [k \in 1..Len(collectedMap) |->
                 IF collectedMap[k].id = illusts[i].id THEN illusts[i]
                 ELSE collectedMap[k]],
             illusts, i + 1)
    ELSE mergeLoop_overwrite(Append(collectedMap, illusts[i]), illusts, i + 1)

\* for (const illust of currentResult.illusts)
\*     if (!collectedMap.has(illust.id)) collectedMap.set(illust.id, illust)
\* (the Map is the sequence of its values in insertion order)
RECURSIVE mergeLoop(_, _, _)
mergeLoop(collectedMap, illusts, i) ==
    IF i > Len(illusts) THEN collectedMap
    ELSE IF has(collectedMap, illusts[i].id)
    THEN mergeLoop(collectedMap, illusts, i + 1)
    ELSE mergeLoop(Append(collectedMap, illusts[i]), illusts, i + 1)

\* the whole pool, not cut to the target
sliceTo_all(collectedMap, requiredCount) == collectedMap

\* Array.from(collectedMap.values()).slice(0, requiredCount)
sliceTo(collectedMap, requiredCount) ==
    SubSeq(collectedMap, 1,
           IF Len(collectedMap) < requiredCount THEN Len(collectedMap)
           ELSE requiredCount)

\* a result that carries the tallies of no attempt
resultOf_noTallies(s, collectedMap) ==
    [NoResult EXCEPT !.illusts = sliceTo(collectedMap, s.requiredCount),
                     !.totalScanned = 0]

\* the ExtractResult a session returns
resultOf(s, collectedMap) ==
    [illusts |-> sliceTo(collectedMap, s.requiredCount),
     totalScanned |-> s.totalScanned, r18Filtered |-> s.totalR18Filtered,
     sensitiveFiltered |-> s.totalSensitiveFiltered,
     bannedFiltered |-> s.totalBannedFiltered]

\* the head of one loop iteration, up to the await of the upstream call
issueCall(s, rand) ==
    IF s.kind = "search"
    THEN [s EXCEPT !.pc = "call",
                   !.maxOffset = maxOffsetAt(s.offsetLevel),
                   !.randomOffset = randomOffsetOf(maxOffsetAt(s.offsetLevel), rand)]
    ELSE [s EXCEPT !.pc = "call"]

\* the locals of a session that enters its loop
enterLoop(kind, keyword, rand) ==
    issueCall([NoSession EXCEPT !.kind = kind, !.keyword = keyword,
                                !.requiredCount = resultCountOr3(config)], rand)

\* the configuration as the session sees it, for the record kept in obs
obsStart ==
    [calls |-> 0, logins |-> 0,
     r18Allowed |-> config.r18Enabled, r18Denied |-> ~config.r18Enabled,
     sensitiveAllowed |-> config.sensitiveEnabled,
     sensitiveDenied |-> ~config.sensitiveEnabled,
     rulesChanged |-> FALSE, threw |-> FALSE]

\* searchTop3(keyword) and getRandomTop3(), from the call to the first await
\* (or to the throw of ensureLoggedIn when no token is configured)
startSession(kind, keyword) ==
    /\ ses.pc = "idle"
    /\ UNCHANGED <<isLoggedIn, bgInit>>
    /\ IF isLoggedIn
       THEN \E rand \in RandomUnits :
               /\ ses' = enterLoop(kind, keyword, rand)
               /\ obs' = [obsStart EXCEPT !.calls = 1]
       ELSE IF config.pixivRefreshToken = ""
       THEN /\ ses' = [NoSession EXCEPT !.pc = "failed", !.kind = kind,
                                        !.keyword = keyword]
            /\ obs' = obsStart
       ELSE /\ ses' = [NoSession EXCEPT !.pc = "login", !.kind = kind,
                                        !.keyword = keyword,
                                        !.token = config.pixivRefreshToken]
            /\ obs' = [obsStart EXCEPT !.logins = 1]

searchTop3(keyword) == startSession("search", keyword)

getRandomTop3 == startSession("recommend", <<>>)

\* a login whose failure is not looked at
loginSettles_ignored(ok) ==
    /\ ses.pc = "login"
    /\ ok => ses.token = "good"
    /\ isLoggedIn' = ok
    /\ UNCHANGED bgInit
    /\ \E rand \in RandomUnits :
          /\ ses' = enterLoop(ses.kind, ses.keyword, rand)
          /\ obs' = [obs EXCEPT !.calls = 1]

\* await this.client.login(pixivRefreshToken) of the session's init() settles
loginSettles(ok) ==
    /\ ses.pc = "login"
    /\ ok => ses.token = "good"
    /\ isLoggedIn' = ok
    /\ UNCHANGED bgInit
    /\ IF ok
       THEN \E rand \in RandomUnits :
               /\ ses' = enterLoop(ses.kind, ses.keyword, rand)
               /\ obs' = [obs EXCEPT !.calls = 1]
       ELSE /\ ses' = [ses EXCEPT !.pc = "failed"]
            /\ UNCHANGED obs

\* whether the loop is left after this attempt without a return
breaksLoop(s, illusts, currentResult, maxOffset) ==
    IF s.kind = "search"
    THEN Len(illusts) = 0 /\ maxOffset = 0
    ELSE /\ Len(currentResult.illusts) = 0
         /\ currentResult.r18Filtered + currentResult.sensitiveFiltered
                + currentResult.bannedFiltered = 0

\* totals that keep the tallies of the latest attempt only
accumulate_latest(s, collectedMap, currentResult) ==
    [s EXCEPT !.collectedMap = collectedMap,
              !.totalScanned = currentResult.totalScanned,
              !.totalR18Filtered = currentResult.r18Filtered,
              !.totalSensitiveFiltered = currentResult.sensitiveFiltered,
              !.totalBannedFiltered = currentResult.bannedFiltered]

\* the pool after the merge, and totalScanned += currentResult.totalScanned
\* with the three filter totals likewise
accumulate(s, collectedMap, currentResult) ==
    [s EXCEPT !.collectedMap = collectedMap,
              !.totalScanned = @ + currentResult.totalScanned,
              !.totalR18Filtered = @ + currentResult.r18Filtered,
              !.totalSensitiveFiltered = @ + currentResult.sensitiveFiltered,
              !.totalBannedFiltered = @ + currentResult.bannedFiltered]

\* the upstream call of the current attempt returns illusts: the rest of the
\* loop body, and then either the return or the next call
callReturns(illusts, rnd, rand) ==
    \E order \in {shuffleOf(illusts, TRUE, rnd)} :
    \E currentResult \in {extractFrom(config, ensureLoaded, order)} :
    \E collectedMap \in {mergeLoop(ses.collectedMap, currentResult.illusts, 1)} :
    LET s1 == accumulate(ses, collectedMap, currentResult)
        s2 == IF s1.kind = "search" /\ Len(illusts) = 0
              THEN [s1 EXCEPT !.offsetLevel = @ + 1] ELSE s1
        s3 == [s2 EXCEPT !.attempt = @ + 1]
    IN
    /\ ses.pc = "call"
    /\ exBatch' = illusts
    /\ exShuffle' = TRUE
    /\ exOrder' = order
    /\ exOut' = currentResult
    /\ IF reachesCheckIllust(config, order, 1, 0)
       THEN words' = ensureLoaded /\ loaded' = TRUE
       ELSE UNCHANGED <<words, loaded>>
    /\ UNCHANGED <<dataFile, nextId, lastOp, config, isLoggedIn, bgInit>>
    /\ IF Len(collectedMap) >= ses.requiredCount
       THEN /\ ses' = [s1 EXCEPT !.pc = "returned",
                                 !.result = resultOf(s1, collectedMap)]
            /\ UNCHANGED obs
       ELSE IF breaksLoop(ses, illusts, currentResult, ses.maxOffset)
       THEN /\ ses' = [s2 EXCEPT !.pc = "returned",
                                 !.result = resultOf(s2, collectedMap)]
            /\ UNCHANGED obs
       ELSE IF s3.attempt >= maxRetriesOf(ses.kind)
       THEN /\ ses' = [s3 EXCEPT !.pc = "returned",
                                 !.result = resultOf(s3, collectedMap)]
            /\ UNCHANGED obs
       ELSE /\ ses' = issueCall(s3, rand)
            /\ obs' = [obs EXCEPT !.calls = @ + 1]

\* a failing call that hands back what the pool holds
callThrows_partial ==
    /\ ses.pc = "call"
    /\ ses' = [ses EXCEPT !.pc = "failed",
                          !.result = resultOf(ses, ses.collectedMap)]
    /\ obs' = [obs EXCEPT !.threw = TRUE]
    /\ UNCHANGED <<isLoggedIn, bgInit>>

\* the upstream call of the current attempt throws: logged and rethrown
callThrows ==
    /\ ses.pc = "call"
    /\ ses' = [ses EXCEPT !.pc = "failed"]
    /\ obs' = [obs EXCEPT !.threw = TRUE]
    /\ UNCHANGED <<isLoggedIn, bgInit>>

\* the caller has taken the result or the error; the locals are gone
sessionEnds ==
    /\ ses.pc \in {"returned", "failed"}
    /\ ses' = NoSession
    /\ obs' = NoObs
    /\ exBatch' = <<>>
    /\ exShuffle' = FALSE
    /\ exOrder' = <<>>
    /\ exOut' = NoResult
    /\ UNCHANGED <<isLoggedIn, bgInit>>

(***************************************************************************)
(* Configuration hooks (plugin_on_config_change, plugin_set_config) and    *)
(* the init() they start.                                                  *)
(***************************************************************************)
\* what the record kept in obs becomes when the configuration changes
obsAfter(cfg) ==
    IF ses.pc \in {"login", "call"}
    THEN [obs EXCEPT !.r18Allowed = @ \/ cfg.r18Enabled,
                     !.r18Denied = @ \/ ~cfg.r18Enabled,
                     !.sensitiveAllowed = @ \/ cfg.sensitiveEnabled,
                     !.sensitiveDenied = @ \/ ~cfg.sensitiveEnabled]
    ELSE obs

\* init() up to its await: returns at once without a token, else logs in
initStarts(cfg) ==
    IF cfg.pixivRefreshToken = "" THEN bgInit' = bgInit
    ELSE bgInit' = cfg.pixivRefreshToken

\* plugin_on_config_change(ctx, ui, key, value, currentConfig)
plugin_on_config_change(key, value) ==
    /\ bgInit = "idle"
    /\ config[key] # value
    /\ config' = [config EXCEPT ![key] = value]
    /\ IF key \in {"pixivRefreshToken", "r18Enabled"}
       THEN initStarts(config')
       ELSE UNCHANGED bgInit
    /\ IF key = "cooldownSeconds"
       THEN cooldownMap' = NoCooldowns
       ELSE UNCHANGED cooldownMap
    /\ obs' = obsAfter(config')
    /\ UNCHANGED <<isLoggedIn, ses>>

\* plugin_set_config(ctx, config)
plugin_set_config(cfg) ==
    /\ bgInit = "idle"
    /\ config' = cfg
    /\ initStarts(cfg)
    /\ UNCHANGED cooldownMap
    /\ obs' = obsAfter(cfg)
    /\ UNCHANGED <<isLoggedIn, ses>>

\* the login of an init() started by a hook (or by plugin_init) settles
initSettles(ok) ==
    /\ bgInit # "idle"
    /\ ok => bgInit = "good"
    /\ isLoggedIn' = ok
    /\ bgInit' = "idle"
    /\ UNCHANGED <<config, ses, obs>>

(***************************************************************************)
(* Sessions under a changing filter configuration and rule list.           *)
(***************************************************************************)
\* the batches the upstream calls return
FeedBatches ==
    { <<>>, <<Work1>>, <<Work1b, Work4, Work7>>, <<Work6, Work3>> }

SessionKeywords == { <<"a">> }

\* a rule is switched on or off while sessions run
toggleRule(id, enabled) ==
    /\ findIndex(ensureLoaded, id) # 0
    /\ ensureLoaded[findIndex(ensureLoaded, id)].enabled # enabled
    /\ update(id, [has |-> {"enabled"}, pattern |-> <<"B">>,
                   matchType |-> "exact", enabled |-> enabled])

Init ==
    /\ dataFile = << BannedWord(1, <<"B">>, "fuzzy", TRUE) >>
    /\ loaded = FALSE
    /\ words = <<>>
    /\ nextId = Len(dataFile) + 1
    /\ lastOp = NoOp
    /\ config \in { c \in Configs : /\ c.pixivRefreshToken = "good"
                                    /\ ~c.r18Enabled /\ ~c.sensitiveEnabled
                                    /\ c.resultCount # undefined
                                    /\ c.rateLimitPerMinute = undefined
                                    /\ c.cooldownSeconds = undefined }
    /\ HandlerIdle
    /\ ExtractIdle
    /\ isLoggedIn = FALSE
    /\ bgInit = config.pixivRefreshToken
    /\ ses = NoSession
    /\ obs = NoObs
    /\ envChanges = 0

\* one more change of the configuration or of the rules
envChange ==
    /\ envChanges < MaxEnvChanges
    /\ envChanges' = envChanges + 1

Next ==
    \/ \E k \in SessionKeywords : searchTop3(k)
         /\ UNCHANGED <<wordsVars, config, extractVars, envChanges, handlerVars>>
    \/ getRandomTop3
         /\ UNCHANGED <<wordsVars, config, extractVars, envChanges, handlerVars>>
    \/ \E ok \in BOOLEAN : loginSettles(ok)
         /\ UNCHANGED <<wordsVars, config, extractVars, envChanges, handlerVars>>
    \/ \E illusts \in FeedBatches :
         \E rnd \in RandomDraws(Len(illusts)), rand \in RandomUnits :
            callReturns(illusts, rnd, rand)
            /\ UNCHANGED <<envChanges, handlerVars>>
    \/ callThrows
         /\ UNCHANGED <<wordsVars, config, extractVars, envChanges, handlerVars>>
    \/ sessionEnds /\ UNCHANGED <<wordsVars, config, envChanges, handlerVars>>
    \/ \E key \in {"r18Enabled", "sensitiveEnabled"}, value \in BOOLEAN :
         plugin_on_config_change(key, value) /\ envChange
         /\ UNCHANGED <<wordsVars, extractVars, handlerRest>>
    \/ \E value \in {"", "bad"} :
         plugin_on_config_change("pixivRefreshToken", value) /\ envChange
         /\ UNCHANGED <<wordsVars, extractVars, handlerRest>>
    \/ \E ok \in BOOLEAN : initSettles(ok)
         /\ UNCHANGED <<wordsVars, extractVars, envChanges, handlerVars>>
    \/ \E id \in 1..MaxRules, enabled \in BOOLEAN :
         toggleRule(id, enabled) /\ envChange
         /\ obs' = [obs EXCEPT !.rulesChanged = @ \/ ses.pc # "idle"]
         /\ UNCHANGED <<config, extractVars, isLoggedIn, bgInit, ses,
                        handlerVars>>

Spec == Init /\ [][Next]_vars

(***************************************************************************)
(* What the claims about extraction speak of, stated on the raw items.     *)
(***************************************************************************)
\* the maturity flag is present and non-zero
MaturityRestricted(illust) ==
    illust.xRestrict # undefined /\ illust.xRestrict # 0

\* the sanity score (absent: 0) is 4 or more
Sensitive(illust) == sanityLevelOf(illust) >= 4

\* the title or a tag name matches an enabled rule of ws
BannedMatch(ws, illust) ==
    \E r \in 1..Len(ws) :
        /\ ws[r].enabled
        /\ \/ illust.title # <<>> /\ WordHits(ws[r], illust.title)
           \/ \E t \in 1..Len(illust.tags) :
                 illust.tags[t] # <<>> /\ WordHits(ws[r], illust.tags[t])

HasImageUrl(illust) ==
    illust.original # NoUrl \/ illust.large # NoUrl \/ illust.medium # NoUrl

\* the filter that rejects the item, "nourl" or "accept"
Verdict(cfg, ws, illust) ==
    IF ~cfg.r18Enabled /\ MaturityRestricted(illust) THEN "r18"
    ELSE IF ~cfg.sensitiveEnabled /\ Sensitive(illust) THEN "sensitive"
    ELSE IF BannedMatch(ws, illust) THEN "banned"
    ELSE IF ~HasImageUrl(illust) THEN "nourl"
    ELSE "accept"

\* the number of positions 1..n of order with this verdict
CountVerdict(cfg, ws, order, n, verdict) ==
    Cardinality({ i \in 1..n : Verdict(cfg, ws, order[i]) = verdict })

\* the number of items the loop examines: up to and including the one that
\* completes the target, all of them when the target is never reached
Examined(cfg, ws, order) ==
    LET full == { n \in 1..Len(order) :
                    CountVerdict(cfg, ws, order, n, "accept") >= resultCountOr3(cfg) }
    IN IF full = {} THEN Len(order)
       ELSE CHOOSE n \in full : \A m \in full : n <= m

ExtractDone == exOut # NoResult

TallySum ==
    exOut.r18Filtered + exOut.sensitiveFiltered + exOut.bannedFiltered
        + Len(exOut.illusts)

(***************************************************************************)
(* C4 as stated: the three rejection tallies, the accepted items and the   *)
(* items dropped for having no image url add up to totalScanned.           *)
(***************************************************************************)
C4_Original ==
    ExtractDone =>
        TallySum + CountVerdict(config, ensureLoaded, exOrder,
                                Examined(config, ensureLoaded, exOrder), "nourl")
            = exOut.totalScanned

(***************************************************************************)
(* C4 amended: the three rejection tallies, the accepted items and the     *)
(* items dropped for having no image url add up to the number of items the *)
(* loop examined before it stopped; that is totalScanned when the loop ran *)
(* through the batch, and less than totalScanned by the number of items    *)
(* left unexamined when the loop stopped early at targetCount accepted.    *)
(***************************************************************************)
C4_TalliesCoverExamined ==
    ExtractDone =>
        LET n == Examined(config, ensureLoaded, exOrder) IN
        /\ TallySum + CountVerdict(config, ensureLoaded, exOrder, n, "nourl") = n
        /\ n <= exOut.totalScanned
        /\ n < exOut.totalScanned => Len(exOut.illusts) = resultCountOr3(config)

\* an item was rejected, one was accepted, and the loop stopped before the end
C4_Witness ==
    /\ ExtractDone
    /\ exOut.bannedFiltered > 0
    /\ Len(exOut.illusts) > 0
    /\ Examined(config, ensureLoaded, exOrder) < exOut.totalScanned

\* the items of the batch that pass every filter and have an image url
PassingIn(cfg, ws, batch) ==
    { i \in 1..Len(batch) : Verdict(cfg, ws, batch[i]) = "accept" }

\* the returned items are exactly the passing items of the batch
ReturnsAllPassing ==
    /\ Len(exOut.illusts) = Cardinality(PassingIn(config, ensureLoaded, exBatch))
    /\ \A i \in PassingIn(config, ensureLoaded, exBatch) :
          Cardinality({ k \in 1..Len(exOut.illusts) :
                          exOut.illusts[k] = SafeIllust(exBatch[i]) })
            = Cardinality({ j \in PassingIn(config, ensureLoaded, exBatch) :
                              SafeIllust(exBatch[j]) = SafeIllust(exBatch[i]) })

RestrictedIn(batch) ==
    { i \in 1..Len(batch) : MaturityRestricted(batch[i]) }

C5_Case ==
    /\ ExtractDone
    /\ ~config.r18Enabled
    /\ Cardinality(PassingIn(config, ensureLoaded, exBatch)) = resultCountOr3(config)

(***************************************************************************)
(* C5 as stated: with maturity disallowed and exactly targetCount passing  *)
(* items in the batch, extract returns all of them and maturityRejected is *)
(* the number of maturity-restricted items of the batch.                   *)
(***************************************************************************)
C5_Original ==
    C5_Case =>
        /\ ReturnsAllPassing
        /\ exOut.r18Filtered = Cardinality(RestrictedIn(exBatch))

(***************************************************************************)
(* C5 amended: with maturity disallowed and exactly targetCount passing    *)
(* items in the batch, extract returns all of them, and maturityRejected   *)
(* is the number of maturity-restricted items that come before the last    *)
(* passing item in the order iterated: at most the number of restricted    *)
(* items of the batch, and equal to it only when none of them comes after  *)
(* the last passing item.                                                  *)
(***************************************************************************)
C5_AllPassingReturned ==
    C5_Case =>
        LET n == Examined(config, ensureLoaded, exOrder) IN
        /\ ReturnsAllPassing
        /\ exOut.r18Filtered
             = Cardinality({ i \in 1..n : MaturityRestricted(exOrder[i]) })
        /\ exOut.r18Filtered <= Cardinality(RestrictedIn(exBatch))
        /\ (exOut.r18Filtered = Cardinality(RestrictedIn(exBatch)))
             <=> (\A i \in (n + 1)..Len(exOrder) : ~MaturityRestricted(exOrder[i]))

\* a shuffle put a restricted item behind the last passing one
C5_Witness ==
    /\ C5_Case
    /\ exShuffle
    /\ exOrder # exBatch
    /\ Len(exOut.illusts) = 2
    /\ exOut.r18Filtered < Cardinality(RestrictedIn(exBatch))

(***************************************************************************)
(* C6.  totalScanned is the length of the input batch, shuffled or not,    *)
(* whatever the filters reject, and also when the loop stops early.        *)
(***************************************************************************)
C6_TotalScannedIsBatchLength ==
    ExtractDone => exOut.totalScanned = Len(exBatch)

\* a shuffled batch whose loop rejected an item and stopped before the end
C6_Witness ==
    /\ ExtractDone
    /\ exShuffle
    /\ exOrder # exBatch
    /\ exOut.r18Filtered + exOut.sensitiveFiltered + exOut.bannedFiltered > 0
    /\ Examined(config, ensureLoaded, exOrder) < Len(exBatch)

(***************************************************************************)
(* What the claims about sessions speak of.                                *)
(***************************************************************************)
SessionRuns == ses.pc \in {"login", "call"}

SessionReturned == ses.pc = "returned"

\* a step in which the upstream call of the current attempt returned
CallReturned == ses.pc = "call" /\ ses' # ses /\ ses'.pc # "failed"

UniqueIds(items) ==
    \A i, j \in 1..Len(items) : items[i].id = items[j].id => i = j

IsPrefix(a, b) ==
    Len(a) <= Len(b) /\ \A i \in 1..Len(a) : a[i] = b[i]

\* the first item with this id that the last extractTopSafe accepted
FirstAccepted(out, id) ==
    out.illusts[CHOOSE k \in 1..Len(out.illusts) :
                    /\ out.illusts[k].id = id
                    /\ \A m \in 1..(k - 1) : out.illusts[m].id # id]

\* the raw items a returned item may come from
RawOf(item) == { w \in FeedWorks : SafeIllust(w) = item }

(***************************************************************************)
(* C2.  The items a session returns hold each id at most once, and the     *)
(* entry for an id is the one of the first attempt that accepted it: an    *)
(* attempt only appends, for the ids the pool does not hold yet, the item  *)
(* it accepted, and never replaces an entry of the pool.                   *)
(***************************************************************************)
C2_DedupFirstWins ==
    /\ [](/\ UniqueIds(ses.collectedMap)
          /\ SessionReturned =>
                /\ UniqueIds(ses.result.illusts)
                /\ IsPrefix(ses.result.illusts, ses.collectedMap))
    /\ [][CallReturned =>
            /\ IsPrefix(ses.collectedMap, ses'.collectedMap)
            /\ \A k \in (Len(ses.collectedMap) + 1)..Len(ses'.collectedMap) :
                  /\ ~has(ses.collectedMap, ses'.collectedMap[k].id)
                  /\ ses'.collectedMap[k]
                       = FirstAccepted(exOut', ses'.collectedMap[k].id)
            /\ \A k \in 1..Len(exOut'.illusts) :
                  has(ses'.collectedMap, exOut'.illusts[k].id)]_vars

\* the last attempt accepted another version of an id the pool already held
C2_Witness ==
    /\ SessionReturned
    /\ \E k \in 1..Len(exOut.illusts), m \in 1..Len(ses.result.illusts) :
          /\ exOut.illusts[k].id = ses.result.illusts[m].id
          /\ exOut.illusts[k] # ses.result.illusts[m]

(***************************************************************************)
(* C3.  A search session issues at most 5 upstream calls and a             *)
(* recommendation session at most 3, and every session ends: each call     *)
(* that returns either ends the session or starts the next attempt, whose  *)
(* number is below the budget; a call that fails ends it.                  *)
(***************************************************************************)
C3_BoundedCallsAndTermination ==
    /\ [](/\ ses.kind = "search" => obs.calls <= 5
          /\ ses.kind = "recommend" => obs.calls <= 3
          /\ ses.pc = "call" =>
                /\ obs.calls = ses.attempt + 1
                /\ ses.kind = "search" => ses.attempt < 5
                /\ ses.kind = "recommend" => ses.attempt < 3)
    /\ [][ses.pc = "call" /\ ses' # ses =>
            \/ ses'.pc \in {"returned", "failed"} /\ obs'.calls = obs.calls
            \/ /\ ses'.pc = "call"
               /\ ses'.attempt = ses.attempt + 1
               /\ obs'.calls = obs.calls + 1]_vars

\* a search session ended after five calls that all returned nothing
C3_Witness ==
    /\ SessionReturned
    /\ ses.kind = "search"
    /\ obs.calls = 5
    /\ ses.result.totalScanned = 0
    /\ ses.result.illusts = <<>>

(***************************************************************************)
(* C7.  If maturity content was disallowed during the whole session, no    *)
(* returned item has a maturity flag that is present and non-zero; an      *)
(* attempt adds to maturityRejected at most the number of items of its     *)
(* batch whose flag is present and non-zero, and nothing while maturity    *)
(* content is allowed, so that a session during which it was allowed       *)
(* throughout returns maturityRejected = 0.                                *)
(***************************************************************************)
C7_MaturityFilter ==
    /\ [](SessionReturned =>
            /\ ~obs.r18Allowed =>
                  \A k \in 1..Len(ses.result.illusts) :
                      \A w \in RawOf(ses.result.illusts[k]) : ~MaturityRestricted(w)
            /\ ~obs.r18Denied => ses.result.r18Filtered = 0)
    /\ [][CallReturned =>
            /\ ses'.totalR18Filtered - ses.totalR18Filtered
                 <= Cardinality(RestrictedIn(exBatch'))
            /\ config.r18Enabled =>
                  ses'.totalR18Filtered = ses.totalR18Filtered]_vars

\* a session under disallowed maturity content that rejected and returned items
C7_Witness ==
    /\ SessionReturned
    /\ ~obs.r18Allowed
    /\ ses.result.r18Filtered > 0
    /\ ses.result.illusts # <<>>

(***************************************************************************)
(* C8.  If sensitive content was disallowed during the whole session, no   *)
(* returned item has a sanity score (absent: 0) of 4 or more; while        *)
(* sensitive content is allowed sensitivityRejected does not grow, so that *)
(* a session during which it was allowed throughout returns 0.             *)
(***************************************************************************)
C8_SensitivityFilter ==
    /\ [](SessionReturned =>
            /\ ~obs.sensitiveAllowed =>
                  \A k \in 1..Len(ses.result.illusts) :
                      \A w \in RawOf(ses.result.illusts[k]) : ~Sensitive(w)
            /\ ~obs.sensitiveDenied => ses.result.sensitiveFiltered = 0)
    /\ [][CallReturned /\ config.sensitiveEnabled =>
            ses'.totalSensitiveFiltered = ses.totalSensitiveFiltered]_vars

\* a session under disallowed sensitive content that rejected and returned items
C8_Witness ==
    /\ SessionReturned
    /\ ~obs.sensitiveAllowed
    /\ ses.result.sensitiveFiltered > 0
    /\ ses.result.illusts # <<>>

(***************************************************************************)
(* C9.  No returned item has a title or a tag name that matches a rule     *)
(* that was enabled when its batch was filtered: an attempt accepts, and   *)
(* adds to the pool, only items that match no rule enabled at that moment; *)
(* every item it examined that passed the two earlier filters and matches  *)
(* an enabled rule is counted in bannedWordRejected.                       *)
(***************************************************************************)
C9_BannedWordFilter ==
    /\ [](SessionReturned =>
            /\ IsPrefix(ses.result.illusts, ses.collectedMap)
            /\ ~obs.rulesChanged =>
                  \A k \in 1..Len(ses.result.illusts) :
                      \A w \in RawOf(ses.result.illusts[k]) :
                          ~BannedMatch(ensureLoaded, w))
    /\ [][CallReturned =>
            /\ \A k \in 1..Len(exOut'.illusts) :
                  \A w \in RawOf(exOut'.illusts[k]) : ~BannedMatch(ensureLoaded, w)
            /\ \A k \in (Len(ses.collectedMap) + 1)..Len(ses'.collectedMap) :
                  \A w \in RawOf(ses'.collectedMap[k]) : ~BannedMatch(ensureLoaded, w)
            /\ exOut'.bannedFiltered
                 = CountVerdict(config, ensureLoaded, exOrder',
                                Examined(config, ensureLoaded, exOrder'), "banned")
            /\ ses'.totalBannedFiltered
                 = ses.totalBannedFiltered + exOut'.bannedFiltered]_vars

\* a session that rejected an item for a banned word and returned another
C9_Witness ==
    /\ SessionReturned
    /\ ~obs.rulesChanged
    /\ ses.result.bannedFiltered > 0
    /\ ses.result.illusts # <<>>

(***************************************************************************)
(* The message handler (message-handler: isRateLimited, the cooldown map,  *)
(* handleMessage; pixiv-handler: handlePixivCommand, handleSearch,         *)
(* handleRandomRecommend, buildForwardNodes).  handleMessage runs without  *)
(* interruption up to its first await; a p站 command that passes the       *)
(* gates is then suspended at the awaits of the pipeline (cmd.pc).         *)
(***************************************************************************)
\* windowMs of isRateLimited
windowMs == 60000

\* pluginState.config.rateLimitPerMinute ?? 60
limitOf(cfg) ==
    IF cfg.rateLimitPerMinute = undefined THEN 60 ELSE cfg.rateLimitPerMinute

\* the loop of isRateLimited keeping a record that is exactly one window old
RECURSIVE prune_strict(_, _)
prune_strict(timestamps, t) ==
    IF Len(timestamps) > 0 /\ timestamps[1] < t - windowMs
    THEN prune_strict(Tail(timestamps), t)
    ELSE timestamps

\* the while loop of isRateLimited: shift() the records that left the window
RECURSIVE prune(_, _)
prune(timestamps, t) ==
    IF Len(timestamps) > 0 /\ timestamps[1] <= t - windowMs
    THEN prune(Tail(timestamps), t)
    ELSE timestamps

\* what isRateLimited() returns at time t
isRateLimited(cfg, timestamps, t) ==
    IF limitOf(cfg) <= 0 THEN FALSE
    ELSE Len(prune(timestamps, t)) >= limitOf(cfg)

\* a check that records its time also when it answers true
timestampsAfter_always(cfg, timestamps, t) ==
    IF limitOf(cfg) <= 0 THEN timestamps
    ELSE Append(prune(timestamps, t), t)

\* requestTimestamps after isRateLimited() at time t
timestampsAfter(cfg, timestamps, t) ==
    IF limitOf(cfg) <= 0 THEN timestamps
    ELSE IF Len(prune(timestamps, t)) >= limitOf(cfg) THEN prune(timestamps, t)
    ELSE Append(prune(timestamps, t), t)

\* Number(pluginState.config.cooldownSeconds) || 0
cdSecondsOf(cfg) ==
    IF cfg.cooldownSeconds = undefined THEN 0 ELSE cfg.cooldownSeconds

\* Math.ceil(a / 1000)
ceilSeconds(a) == -((-a) \div 1000)

\* a check that does not see the entry while another command is suspended
getCooldownRemaining_stale(cfg, map, groupId, t) ==
    IF cdSecondsOf(cfg) <= 0 \/ cmd.pc # "idle" THEN 0
    ELSE IF map[groupId] = undefined \/ map[groupId] = 0 THEN 0
    ELSE IF ceilSeconds(map[groupId] - t) <= 0 THEN 0
    ELSE ceilSeconds(map[groupId] - t)

\* getCooldownRemaining that rounds the remaining time down
getCooldownRemaining_floor(cfg, map, groupId, t) ==
    IF cdSecondsOf(cfg) <= 0 THEN 0
    ELSE IF map[groupId] = undefined \/ map[groupId] = 0 THEN 0
    ELSE IF (map[groupId] - t) \div 1000 <= 0 THEN 0
    ELSE (map[groupId] - t) \div 1000

\* what getCooldownRemaining(groupId) returns at time t
getCooldownRemaining(cfg, map, groupId, t) ==
    IF cdSecondsOf(cfg) <= 0 THEN 0
    ELSE IF map[groupId] = undefined \/ map[groupId] = 0 THEN 0
    ELSE IF ceilSeconds(map[groupId] - t) <= 0 THEN 0
    ELSE ceilSeconds(map[groupId] - t)

\* cooldownMap after getCooldownRemaining(groupId) at time t
cooldownAfterCheck(cfg, map, groupId, t) ==
    IF cdSecondsOf(cfg) <= 0 THEN map
    ELSE IF map[groupId] = undefined \/ map[groupId] = 0 THEN map
    ELSE IF ceilSeconds(map[groupId] - t) <= 0
    THEN [map EXCEPT ![groupId] = undefined]
    ELSE map

\* a start of the cooldown that records nothing
setCooldown_nothing(cfg, map, groupId, t) == map

\* an expiry that adds the seconds to the milliseconds as they are
setCooldown_seconds(cfg, map, groupId, t) ==
    IF cdSecondsOf(cfg) <= 0 THEN map
    ELSE [map EXCEPT ![groupId] = t + cdSecondsOf(cfg)]

\* cooldownMap after setCooldown(groupId) at time t
setCooldown(cfg, map, groupId, t) ==
    IF cdSecondsOf(cfg) <= 0 THEN map
    ELSE [map EXCEPT ![groupId] = t + cdSecondsOf(cfg) * 1000]

\* args.join(' ')
RECURSIVE join(_)
join(args) ==
    IF Len(args) = 0 THEN <<>>
    ELSE IF Len(args) = 1 THEN args[1]
    ELSE args[1] \o <<" ">> \o join(Tail(args))

\* an incoming message: sub is args[0] of handleMessage in lower case, args
\* the words after it; groupEnabled is what isGroupEnabled answers, prefixed
\* whether raw_message starts with the command prefix
Event(messageType, group_id, user_id, groupEnabled, prefixed, sub, args) ==
    [messageType |-> messageType, group_id |-> group_id, user_id |-> user_id,
     groupEnabled |-> groupEnabled, prefixed |-> prefixed, sub |-> sub,
     args |-> args]

\* the messages that arrive
Events ==
    { Event("group", 1, 1, TRUE, TRUE, "p站", a) :
        a \in { <<>>, << <<"a">> >>, << <<"A">>, <<"b">> >> } }
    \cup { Event("group", 2, 1, TRUE, TRUE, "p站", << <<"a">> >>),
           Event("private", undefined, 1, FALSE, TRUE, "p站", << <<"a">> >>),
           Event("private", undefined, 1, FALSE, TRUE, "p站", << <<"A">>, <<"b">> >>),
           Event("group", 1, 1, TRUE, TRUE, "ping", <<>>),
           Event("private", undefined, 1, FALSE, TRUE, "help", <<>>),
           Event("private", undefined, 1, FALSE, TRUE, "status", <<>>),
           Event("private", undefined, 1, FALSE, TRUE, "other", <<>>),
           Event("group", 2, 1, FALSE, TRUE, "p站", << <<"b">> >>),
           Event("private", undefined, 1, FALSE, FALSE, "p站", << <<"b">> >>) }

\* the readings of the clock
TimePoints == {0, 500, 2000, 60000}

\* the result of the keyword check of handleSearch that never hits
bannedHitOf_none(keyword) == Null

\* bannedWordsService.checkKeyword(keyword) as handleSearch calls it
bannedHitOf(keyword) == checkKeywordOn(ensureLoaded, keyword)

\* a reply sent with sendReply; parts are the counts a reply lists
Reply(seq, event, text, remaining) ==
    [seq |-> seq, event |-> event, text |-> text, remaining |-> remaining,
     parts |-> <<>>]

\* the test without its message type conjunct
inGroup_anyType(event) == event.group_id # undefined

\* whether the message is a group message with a group id
inGroup(event) == event.messageType = "group" /\ event.group_id # undefined

\* handleMessage(ctx, event), up to its first await; the reply it awaits is
\* recorded in sent.  A p站 command that passes the gates and the keyword
\* check goes on in the pipeline.
handleMessage(event) ==
    LET seq == msgCount + 1
        limited == isRateLimited(config, requestTimestamps, now)
        remaining == getCooldownRemaining(config, cooldownMap, event.group_id, now)
        checked == cooldownAfterCheck(config, cooldownMap, event.group_id, now)
        keyword == join(event.args)
        checkedRate == ~((inGroup(event) /\ ~event.groupEnabled) \/ ~event.prefixed)
        checkedCooldown == /\ checkedRate /\ ~limited
                           /\ event.sub \in {"ping", "p站"} /\ inGroup(event)
    IN
    /\ msgCount' = seq
    /\ hist' = [hist EXCEPT
                   !.admitted =
                      IF checkedRate /\ limitOf(config) > 0 /\ ~limited
                      THEN Append(hist.admitted, now) ELSE hist.admitted,
                   !.triggered =
                      IF checkedCooldown /\ cdSecondsOf(config) > 0 /\ remaining = 0
                      THEN [hist.triggered EXCEPT ![event.group_id] = now]
                      ELSE hist.triggered]
    /\ UNCHANGED <<now, tempFiles, config, extractVars, serviceVars,
                   dataFile, nextId, lastOp, fetches>>
    /\ IF (inGroup(event) /\ ~event.groupEnabled) \/ ~event.prefixed
       THEN /\ sent' = Reply(seq, event, "none", 0)
            /\ UNCHANGED <<requestTimestamps, cooldownMap, cmd, processed,
                           words, loaded>>
       ELSE
       /\ requestTimestamps' = timestampsAfter(config, requestTimestamps, now)
       /\ IF limited
          THEN /\ sent' = Reply(seq, event, "rateLimited", 0)
               /\ UNCHANGED <<cooldownMap, cmd, processed, words, loaded>>
          ELSE IF event.sub \in {"help", "status"}
          THEN /\ sent' = Reply(seq, event, event.sub, 0)
               /\ UNCHANGED <<cooldownMap, cmd, processed, words, loaded>>
          ELSE IF event.sub \notin {"ping", "p站"}
          THEN /\ sent' = Reply(seq, event, "none", 0)
               /\ UNCHANGED <<cooldownMap, cmd, processed, words, loaded>>
          ELSE IF inGroup(event) /\ remaining > 0
          THEN /\ sent' = Reply(seq, event, "cooldown", remaining)
               /\ cooldownMap' = checked
               /\ UNCHANGED <<cmd, processed, words, loaded>>
          ELSE
          /\ cooldownMap' = IF inGroup(event)
                            THEN setCooldown(config, checked, event.group_id, now)
                            ELSE cooldownMap
          /\ IF event.sub = "ping"
             THEN /\ sent' = Reply(seq, event, "pong", 0)
                  /\ processed' = processed + 1
                  /\ UNCHANGED <<cmd, words, loaded>>
             ELSE IF Len(event.args) = 0 \/ event.args[1] = <<>>
             THEN /\ cmd.pc = "idle"
                  /\ sent' = Reply(seq, event, "recommending", 0)
                  /\ cmd' = [NoCommand EXCEPT !.pc = "notify", !.seq = seq,
                                              !.event = event]
                  /\ UNCHANGED <<processed, words, loaded>>
             ELSE
             /\ words' = ensureLoaded
             /\ loaded' = TRUE
             /\ IF bannedHitOf(keyword) # Null
                THEN /\ sent' = Reply(seq, event, "refused", 0)
                     /\ processed' = processed + 1
                     /\ UNCHANGED cmd
                ELSE /\ cmd.pc = "idle"
                     /\ sent' = Reply(seq, event, "searching", 0)
                     /\ cmd' = [NoCommand EXCEPT !.pc = "notify", !.seq = seq,
                                                 !.event = event,
                                                 !.keyword = keyword]
                     /\ UNCHANGED processed

\* the reply "searching" / "recommending" is sent: the handler calls
\* pixivService.searchTop3(keyword) or getRandomTop3()
pipelineStarts ==
    /\ cmd.pc = "notify"
    /\ cmd' = [cmd EXCEPT !.pc = "session"]
    /\ IF cmd.keyword = <<>> THEN getRandomTop3 ELSE searchTop3(cmd.keyword)
    /\ UNCHANGED <<wordsVars, config, extractVars, envChanges, now,
                   requestTimestamps, cooldownMap, tempFiles, sent, msgCount,
                   processed, hist, fetches>>

\* one entry of parts
Part(label, count) == IF count > 0 THEN << <<label, count>> >> ELSE <<>>

\* parts: the counts that are positive, in the order they are pushed
partsOf(result) ==
    IF result.r18Filtered + result.sensitiveFiltered + result.bannedFiltered > 0
    THEN Part("R-18", result.r18Filtered)
            \o Part("sensitive", result.sensitiveFiltered)
            \o Part("banned", result.bannedFiltered)
    ELSE <<>>

\* an answer that looks at the words filter and the sensitivity filter only
emptyReply_withoutR18(result) ==
    IF result.sensitiveFiltered + result.bannedFiltered > 0
    THEN "allFiltered" ELSE "notFound"

\* the reply of handleSearch / handleRandomRecommend to an empty result
emptyReply(result) ==
    IF result.r18Filtered + result.sensitiveFiltered + result.bannedFiltered > 0
    THEN "allFiltered" ELSE "notFound"

\* the awaited session settles: the catch block answers an error, an empty
\* result is answered at once, otherwise buildForwardNodes starts
sessionSettles ==
    /\ cmd.pc = "session"
    /\ ses.pc \in {"returned", "failed"}
    /\ sessionEnds
    /\ UNCHANGED <<wordsVars, config, envChanges, now, requestTimestamps,
                   cooldownMap, tempFiles, msgCount, hist, fetches>>
    /\ IF ses.pc = "failed"
       THEN /\ sent' = Reply(cmd.seq, cmd.event, "failed", 0)
            /\ cmd' = NoCommand
            /\ processed' = processed + 1
       ELSE IF Len(ses.result.illusts) = 0
       THEN /\ sent' = [Reply(cmd.seq, cmd.event, emptyReply(ses.result), 0)
                           EXCEPT !.parts = partsOf(ses.result)]
            /\ cmd' = NoCommand
            /\ processed' = processed + 1
       ELSE /\ cmd' = [cmd EXCEPT !.pc = "download",
                                  !.illusts = ses.result.illusts]
            /\ UNCHANGED <<sent, processed>>

\* path.basename(imageUrl)
basename(imageUrl) == imageUrl[Len(imageUrl)]

\* the indices of the illusts whose file downloadImage has to fetch
toFetch(illusts, files) ==
    { i \in 1..Len(illusts) : basename(illusts[i].imageUrl) \notin files }

\* path.join(tempDir, fileName)
filePathOf(imageUrl) == <<"napcat-pixiv-plugin", basename(imageUrl)>>

\* the place of the illust in a segment that belongs to none
NoIllust == [id |-> undefined, title |-> <<>>, userName |-> "", imageUrl |-> NoUrl]

\* { type: 'text', data: { text: title } }
titleSegment == [type |-> "text", text |-> "title", file |-> NoUrl, of |-> NoIllust]

\* { type: 'image', data: { file: `file://${localPath}` } }
imageSegment(localPath) ==
    [type |-> "image", text |-> "", file |-> localPath, of |-> NoIllust]

\* { type: 'text', data: { text: title, userName and id of the illust } }
captionSegment(illust) ==
    [type |-> "text", text |-> "caption", file |-> NoUrl, of |-> illust]

\* what Promise.allSettled yields when the downloads of the set failed were
\* rejected
downloadResultsOf(illusts, failed) ==
    [i \in 1..Len(illusts) |->
        IF i \in failed THEN [status |-> "rejected", value |-> NoUrl]
        ELSE [status |-> "fulfilled", value |-> filePathOf(illusts[i].imageUrl)]]

\* a loop that gives up at the first download that failed
RECURSIVE contentLoop_untilFailure(_, _, _)
contentLoop_untilFailure(illusts, downloadResults, i) ==
    IF i > Len(illusts) THEN <<>>
    ELSE IF downloadResults[i].status # "fulfilled" THEN <<>>
    ELSE <<imageSegment(downloadResults[i].value), captionSegment(illusts[i])>>
            \o contentLoop_untilFailure(illusts, downloadResults, i + 1)

\* the for loop of buildForwardNodes from position i on: what it pushes
RECURSIVE contentLoop(_, _, _)
contentLoop(illusts, downloadResults, i) ==
    IF i > Len(illusts) THEN <<>>
    ELSE IF downloadResults[i].status # "fulfilled"
    THEN contentLoop(illusts, downloadResults, i + 1)
    ELSE <<imageSegment(downloadResults[i].value), captionSegment(illusts[i])>>
            \o contentLoop(illusts, downloadResults, i + 1)

\* content when the loop is done: the title was pushed first
contentOf(illusts, downloadResults) ==
    <<titleSegment>> \o contentLoop(illusts, downloadResults, 1)

\* what buildForwardNodes returns
nodesOf(content) ==
    IF Len(content) = 0 THEN <<>>
    ELSE << [nickname |-> "Pixiv Bot", content |-> content] >>

\* buildForwardNodes and what its caller does with the nodes: the downloads
\* of Promise.allSettled settle, those of the set failed with a rejection;
\* no node is answered with a reply, otherwise sendForwardMsg is called
buildForwardNodes(failed) ==
    \E downloadResults \in {downloadResultsOf(cmd.illusts, failed)} :
    \E nodes \in {nodesOf(contentOf(cmd.illusts, downloadResults))} :
    /\ cmd.pc = "download"
    /\ failed \subseteq toFetch(cmd.illusts, tempFiles)
    /\ tempFiles' = tempFiles \cup
          { basename(cmd.illusts[i].imageUrl) :
              i \in toFetch(cmd.illusts, tempFiles) \ failed }
    /\ IF Len(nodes) = 0
       THEN /\ sent' = Reply(cmd.seq, cmd.event, "downloadFailed", 0)
            /\ cmd' = NoCommand
            /\ processed' = processed + 1
       ELSE /\ cmd' = [cmd EXCEPT
                         !.pc = "forward",
                         !.downloadResults = downloadResults,
                         !.nodes = nodes,
                         !.downloads = Cardinality(toFetch(cmd.illusts, tempFiles))]
            /\ UNCHANGED <<sent, processed>>
    /\ UNCHANGED <<wordsVars, config, extractVars, serviceVars, now,
                   requestTimestamps, cooldownMap, msgCount, hist, fetches>>

\* sendForwardMsg settles; a failure is answered with a reply
sendForwardMsg(ok) ==
    /\ cmd.pc = "forward"
    /\ sent' = Reply(cmd.seq, cmd.event,
                     IF ok THEN "forward" ELSE "forwardFailed", 0)
    /\ cmd' = NoCommand
    /\ processed' = processed + 1
    /\ UNCHANGED <<wordsVars, config, extractVars, serviceVars, now,
                   requestTimestamps, cooldownMap, tempFiles, msgCount, hist, fetches>>

\* a cleanup that reports success and removes nothing
cleanupCache_keepsFiles(left) ==
    /\ tempFiles # {}
    /\ left \subseteq tempFiles
    /\ UNCHANGED tempFiles
    /\ fetches' = [i \in 1..Len(fetches) |->
                      [fetches[i] EXCEPT !.cleaned = TRUE, !.onDisk = FALSE]]
    /\ hist' = [hist EXCEPT !.cleanup = "removed"]
    /\ UNCHANGED <<wordsVars, config, extractVars, serviceVars, now,
                   requestTimestamps, cooldownMap, cmd, sent, msgCount,
                   processed>>

\* cleanupCache(): fs.rmSync removes the temporary directory, or throws with
\* the files of left still there, which is caught and logged
cleanupCache(left) ==
    /\ tempFiles # {}
    /\ left \subseteq tempFiles
    /\ tempFiles' = left
    /\ fetches' = [i \in 1..Len(fetches) |->
                      [fetches[i] EXCEPT
                         !.cleaned = TRUE,
                         !.onDisk = @ /\ basename(fetches[i].imageUrl) \in left]]
    /\ hist' = [hist EXCEPT !.cleanup = IF left = {} THEN "removed" ELSE "caught"]
    /\ UNCHANGED <<wordsVars, config, extractVars, serviceVars, now,
                   requestTimestamps, cooldownMap, cmd, sent, msgCount,
                   processed>>

\* time passes
tick(t) ==
    /\ t > now
    /\ now' = t
    /\ UNCHANGED <<wordsVars, config, extractVars, serviceVars,
                   requestTimestamps, cooldownMap, tempFiles, cmd, sent,
                   msgCount, processed, hist, fetches>>

\* the batches the upstream calls return to a command
CommandBatches == { <<>>, <<Work2>>, <<Work1, Work4>> }

InitHandler ==
    /\ dataFile = << BannedWord(1, <<"B">>, "fuzzy", TRUE) >>
    /\ loaded = FALSE
    /\ words = <<>>
    /\ nextId = Len(dataFile) + 1
    /\ lastOp = NoOp
    /\ config \in { c \in Configs : /\ c.pixivRefreshToken = "good"
                                    /\ ~c.r18Enabled /\ ~c.sensitiveEnabled
                                    /\ c.resultCount = 1
                                    /\ \/ /\ c.rateLimitPerMinute = 1
                                          /\ c.cooldownSeconds = undefined
                                       \/ /\ c.rateLimitPerMinute = 0
                                          /\ c.cooldownSeconds = 2 }
    /\ ExtractIdle
    /\ ServiceIdle
    /\ HandlerIdle

NextHandler ==
    \/ \E event \in Events : msgCount < MaxMessages /\ handleMessage(event)
    \/ pipelineStarts
    \/ \E ok \in BOOLEAN : loginSettles(ok) /\ cmd.pc = "session"
         /\ UNCHANGED <<wordsVars, config, extractVars, envChanges, handlerVars>>
    \/ \E illusts \in CommandBatches :
         \E rnd \in RandomDraws(Len(illusts)) :
            callReturns(illusts, rnd, 999) /\ cmd.pc = "session"
            /\ UNCHANGED <<envChanges, handlerVars>>
    \/ callThrows /\ cmd.pc = "session"
         /\ UNCHANGED <<wordsVars, config, extractVars, envChanges, handlerVars>>
    \/ sessionSettles
    \/ \E failed \in SUBSET (1..MaxCount) : buildForwardNodes(failed)
    \/ \E ok \in BOOLEAN : sendForwardMsg(ok)
    \/ cleanupCache({})
    \/ \E t \in TimePoints : tick(t)
    \/ \E id \in 1..MaxRules, enabled \in BOOLEAN :
         toggleRule(id, enabled) /\ envChange
         /\ UNCHANGED <<config, extractVars, isLoggedIn, bgInit, ses, obs,
                        handlerVars>>

SpecHandler == InitHandler /\ [][NextHandler]_vars

(***************************************************************************)
(* C10.  A search command whose keyword matches an enabled banned-word     *)
(* rule never gets past the keyword check: handling it starts no pipeline  *)
(* (no login, no upstream call, no download: the service, the session and  *)
(* the temporary files are left as they were), and when the group is       *)
(* enabled, the prefix is there and the rate and cooldown gates admit the  *)
(* command, the reply sent is the refusal.                                 *)
(***************************************************************************)
\* the keyword of the search command this message is, if it is one
IsSearch(event) ==
    /\ event.sub = "p站"
    /\ Len(event.args) > 0
    /\ event.args[1] # <<>>

KeywordBanned(ws, event) ==
    \E r \in 1..Len(ws) : ws[r].enabled /\ WordHits(ws[r], join(event.args))

C10_BannedKeywordRefused ==
    [][(msgCount' = msgCount + 1 /\ IsSearch(sent'.event)
          /\ KeywordBanned(ensureLoaded, sent'.event)) =>
            /\ sent'.text \in {"refused", "rateLimited", "cooldown", "none"}
            /\ sent'.text = "none" <=>
                  \/ inGroup(sent'.event) /\ ~sent'.event.groupEnabled
                  \/ ~sent'.event.prefixed
            /\ sent'.text = "rateLimited" =>
                  Len(requestTimestamps) >= limitOf(config)
            /\ sent'.text = "cooldown" =>
                  /\ inGroup(sent'.event)
                  /\ cooldownMap[sent'.event.group_id] > now
            /\ UNCHANGED <<cmd, ses, obs, isLoggedIn, bgInit, tempFiles,
                           extractVars>>]_vars

\* a search command with a banned keyword came in a group and was refused
C10_Witness ==
    /\ sent.text = "refused"
    /\ IsSearch(sent.event)
    /\ sent.event.messageType = "group"
    /\ KeywordBanned(ensureLoaded, sent.event)
    /\ cmd.pc = "idle"

(***************************************************************************)
(* The gates of handleMessage on their own: commands that end at the rate  *)
(* limit, at the cooldown or at the keyword check, over a longer stretch   *)
(* of time.                                                                *)
(***************************************************************************)
\* messages that start no pipeline
GateEvents ==
    { Event("group", 1, 1, TRUE, TRUE, "ping", <<>>),
      Event("group", 2, 1, TRUE, TRUE, "ping", <<>>),
      Event("group", 1, 2, TRUE, TRUE, "ping", <<>>),
      Event("group", 1, 1, TRUE, TRUE, "p站", << <<"A">>, <<"b">> >>),
      Event("group", 1, 2, TRUE, TRUE, "p站", <<>>),
      Event("private", undefined, 1, FALSE, TRUE, "ping", <<>>),
      Event("private", 1, 2, TRUE, TRUE, "ping", <<>>),
      Event("private", undefined, 1, FALSE, TRUE, "help", <<>>) }

\* the readings of the clock at the gates
GateTimes == {0, 500, 2000, 59500, 60000, 61000}

InitGate ==
    /\ dataFile = << BannedWord(1, <<"B">>, "fuzzy", TRUE) >>
    /\ loaded = FALSE
    /\ words = <<>>
    /\ nextId = Len(dataFile) + 1
    /\ lastOp = NoOp
    /\ config \in { c \in Configs : /\ c.pixivRefreshToken = "good"
                                    /\ ~c.r18Enabled /\ ~c.sensitiveEnabled
                                    /\ c.resultCount = 1
                                    /\ c.rateLimitPerMinute # undefined }
    /\ ExtractIdle
    /\ ServiceIdle
    /\ HandlerIdle

NextGate ==
    \/ \E event \in GateEvents : msgCount < MaxChecks /\ handleMessage(event)
    \/ \E t \in GateTimes : tick(t)

SpecGate == InitGate /\ [][NextGate]_vars

\* a message was handled in this step
MessageHandled == msgCount' = msgCount + 1

\* the message handled in this step got as far as the rate-limit check
RateChecked ==
    /\ MessageHandled
    /\ sent'.event.prefixed
    /\ ~(inGroup(sent'.event) /\ ~sent'.event.groupEnabled)

\* the number of admitted checks less than 60 seconds before t
RecentlyAdmitted(t) ==
    Cardinality({ i \in 1..Len(hist.admitted) : hist.admitted[i] > t - 60000 })

(***************************************************************************)
(* C11.  With a limit L > 0 a rate-limit check is admitted exactly when    *)
(* fewer than L of the checks admitted before it, whatever group or        *)
(* private chat they came from, are less than 60 seconds old; with L = 0   *)
(* every check is admitted.                                                *)
(***************************************************************************)
C11_SlidingWindow ==
    [][RateChecked =>
         /\ limitOf(config) > 0 =>
               (sent'.text # "rateLimited" <=> RecentlyAdmitted(now) < limitOf(config))
         /\ limitOf(config) = 0 => sent'.text # "rateLimited"]_vars

\* L = 2: of three checks within one second two were admitted, and the
\* fourth, 61 seconds after the first, was admitted again
C11_Witness ==
    /\ config.rateLimitPerMinute = 2
    /\ msgCount = 4
    /\ Len(hist.admitted) = 3
    /\ hist.admitted[1] = 0
    /\ hist.admitted[2] <= 500
    /\ hist.admitted[3] = 61000
    /\ sent.text # "rateLimited"

(***************************************************************************)
(* C12.  An add, or an update of an existing rule, whose resulting rule    *)
(* would have matchType regex and a pattern that does not compile fails    *)
(* and leaves the rule list in memory and the persisted rule list as they  *)
(* were; no stored rule ever is a regex rule with such a pattern.          *)
(***************************************************************************)
\* the call of this step is an add / update that asks for an invalid regex rule
AsksInvalidRegex ==
    /\ lastOp'.op \in {"add", "update"}
    /\ lastOp'.matchType = "regex"
    /\ ~RegExpCompiles(lastOp'.text)

C12_InvalidRegexRejected ==
    /\ [][AsksInvalidRegex =>
            /\ ~lastOp'.ok
            /\ words' = ensureLoaded
            /\ dataFile' = dataFile
            /\ nextId' = nextId]_vars
    /\ [](\A i \in 1..Len(dataFile) :
             dataFile[i].matchType = "regex" => RegExpCompiles(dataFile[i].pattern))

\* add of the pattern "(" as a regex rule failed on a list that holds rules
C12_Witness ==
    /\ lastOp.op = "add"
    /\ ~lastOp.ok
    /\ lastOp.text = <<"(">>
    /\ lastOp.matchType = "regex"
    /\ Len(words) > 0
    /\ words = dataFile

(***************************************************************************)
(* downloadImage on its own (pixiv.service.ts, downloadImage): the call    *)
(* runs to its await of pixivImg, or returns the cached path at once.      *)
(***************************************************************************)
\* fs.existsSync(filePath) that never finds the file
existsSync_never(files, imageUrl) == FALSE

\* fs.existsSync(filePath)
existsSync(files, imageUrl) == basename(imageUrl) \in files

\* the calls that had returned a path, with no cleanup since, at this moment
FulfilledNow ==
    { i \in 1..Len(fetches) :
        fetches[i].status = "fulfilled" /\ ~fetches[i].cleaned }

\* downloadImage(imageUrl) up to the return of the cached path or to the
\* await of pixivImg; prior records which calls had succeeded before
downloadImage(imageUrl) ==
    /\ fetches' = Append(fetches,
          [imageUrl |-> imageUrl,
           status |-> IF existsSync(tempFiles, imageUrl)
                      THEN "fulfilled" ELSE "pending",
           path |-> IF existsSync(tempFiles, imageUrl)
                    THEN filePathOf(imageUrl) ELSE NoUrl,
           network |-> ~existsSync(tempFiles, imageUrl),
           cleaned |-> FALSE,
           prior |-> FulfilledNow,
           onDisk |-> FALSE,
           written |-> { i \in 1..Len(fetches) : fetches[i].onDisk }])
    /\ UNCHANGED tempFiles

\* await pixivImg(imageUrl, filePath) of call i settles; what a failed
\* download leaves at filePath is up to the library
pixivImgSettles(i, ok, leftover) ==
    /\ i \in 1..Len(fetches)
    /\ fetches[i].status = "pending"
    /\ ok => ~leftover
    /\ fetches' = [fetches EXCEPT
                     ![i].status = IF ok THEN "fulfilled" ELSE "rejected",
                     ![i].path = IF ok THEN filePathOf(fetches[i].imageUrl)
                                 ELSE NoUrl,
                     ![i].onDisk = ok \/ leftover]
    /\ tempFiles' = IF ok \/ leftover
                    THEN tempFiles \cup {basename(fetches[i].imageUrl)}
                    ELSE tempFiles

\* the urls downloadImage is called with
FetchUrls == { <<"i", "o1.png">>, <<"j", "o1.png">>, <<"i", "o4.png">> }

\* nothing has been downloaded yet
InitDownload == InitWords

\* the steps around downloadImage leave the rest of the plugin alone
downloadRest ==
    <<wordsVars, config, extractVars, serviceVars, now, requestTimestamps,
      cooldownMap, cmd, sent, msgCount, processed, hist>>

NextDownload ==
    \/ \E imageUrl \in FetchUrls :
         /\ Len(fetches) < MaxFetches
         /\ downloadImage(imageUrl)
         /\ UNCHANGED downloadRest
    \/ \E i \in 1..MaxFetches, ok \in BOOLEAN, leftover \in BOOLEAN :
         pixivImgSettles(i, ok, leftover) /\ UNCHANGED downloadRest
    \/ \E left \in SUBSET tempFiles : cleanupCache(left)

SpecDownload == InitDownload /\ [][NextDownload]_vars

(***************************************************************************)
(* C13.  A call of downloadImage made after a call with the same url has   *)
(* returned a path, with no cleanup of the cache in between, returns the   *)
(* same path and downloads nothing; a call downloads from the network      *)
(* exactly when the file is not there, so that the two calls together      *)
(* perform the one download of the first.                                  *)
(***************************************************************************)
C13_SecondFetchIsCacheHit ==
    \A j \in 1..Len(fetches) :
        /\ \A i \in fetches[j].prior :
              fetches[i].imageUrl = fetches[j].imageUrl =>
                 /\ fetches[j].status = "fulfilled"
                 /\ fetches[j].path = fetches[i].path
                 /\ ~fetches[j].network
        /\ (fetches[j].prior = {} /\ j = 1) => fetches[j].network

\* the first call downloaded and succeeded, the second returned the same path
C13_Witness ==
    /\ Len(fetches) >= 2
    /\ fetches[1].network
    /\ fetches[1].status = "fulfilled"
    /\ fetches[2].imageUrl = fetches[1].imageUrl
    /\ 1 \in fetches[2].prior
    /\ fetches[2].path = fetches[1].path

(***************************************************************************)
(* C14.  With a cooldown of c > 0 seconds, a ping or p站 command of a      *)
(* group that meets the cooldown gate (it passed the rate limit) less than *)
(* c seconds after the latest such command the gate admitted in the same   *)
(* group, whoever sent either, is answered with the seconds that remain    *)
(* and starts nothing; otherwise the gate admits it, whatever the          *)
(* cooldowns of the other groups are.                                      *)
(***************************************************************************)
\* the message handled in this step is a group command that met the
\* cooldown gate
CooldownChecked ==
    /\ RateChecked
    /\ sent'.text # "rateLimited"
    /\ sent'.event.sub \in {"ping", "p站"}
    /\ inGroup(sent'.event)

\* the end of the cooldown the latest admitted command of group g started
CooldownEnd(g) == hist.triggered[g] + cdSecondsOf(config) * 1000

\* whole seconds, rounded up, from now to time t > now
SecondsUntil(t) ==
    CHOOSE n \in 1..cdSecondsOf(config) :
        (n - 1) * 1000 < t - now /\ t - now <= n * 1000

C14_GroupCooldown ==
    [][(CooldownChecked /\ cdSecondsOf(config) > 0) =>
         LET g == sent'.event.group_id IN
         IF hist.triggered[g] # undefined /\ now < CooldownEnd(g)
         THEN /\ sent'.text = "cooldown"
              /\ sent'.remaining = SecondsUntil(CooldownEnd(g))
              /\ UNCHANGED <<cmd, ses, obs, processed, cooldownMap>>
              /\ hist'.triggered = hist.triggered
         ELSE /\ sent'.text # "cooldown"
              /\ hist'.triggered[g] = now]_vars

\* a command of user 2 in group 1 was turned away by the cooldown that a
\* command of user 1 had started, while group 2 had no cooldown running
C14_Witness ==
    /\ sent.text = "cooldown"
    /\ sent.remaining = 2
    /\ sent.event.group_id = 1
    /\ sent.event.user_id = 2
    /\ hist.triggered[1] # undefined
    /\ hist.triggered[2] = undefined
    /\ cmd.pc = "notify"

(***************************************************************************)
(* C15.  A command received in a private chat is never answered with the   *)
(* cooldown reply and leaves the cooldown map as it was, whatever cooldowns*)
(* the groups have running, also when the private message carries the id   *)
(* of a group whose cooldown is running.                                   *)
(***************************************************************************)
C15_PrivateSkipsCooldown ==
    [][(MessageHandled /\ sent'.event.messageType = "private") =>
         /\ sent'.text # "cooldown"
         /\ cooldownMap' = cooldownMap
         /\ hist'.triggered = hist.triggered]_vars

\* a private ping that names group 1 was answered while the cooldown of
\* group 1 was running
C15_Witness ==
    /\ sent.text = "pong"
    /\ sent.event.messageType = "private"
    /\ sent.event.group_id = 1
    /\ cooldownMap[1] # undefined
    /\ cooldownMap[1] > now

(***************************************************************************)
(* C16.  When the upstream call of attempt k of a session fails, the       *)
(* session fails in the same step: k calls have been issued, the failed    *)
(* session issues no call any more, and it carries no result, also when    *)
(* earlier attempts had put items into the pool.                           *)
(***************************************************************************)
\* the upstream call of the running attempt fails in this step
CallFailed == ses.pc = "call" /\ ses'.pc = "failed"

C16_FailureIsImmediate ==
    /\ [](ses.pc = "failed" => ses.result = NoResult)
    /\ [][/\ CallFailed => /\ obs'.calls = ses.attempt + 1
                           /\ obs'.calls = obs.calls
                           /\ ses'.result = NoResult
          /\ ses.pc = "failed" => /\ ses'.pc \in {"failed", "idle"}
                                  /\ ses'.pc = "failed" => obs'.calls = obs.calls]_vars

\* the second call of a session failed after the first had put an item
\* into the pool
C16_Witness ==
    /\ ses.pc = "failed"
    /\ obs.calls = 2
    /\ ses.attempt = 1
    /\ Len(ses.collectedMap) = 1

(***************************************************************************)
(* C17.  A session that finds the service logged in issues its first       *)
(* upstream call at once.  One that does not issues no call before a login *)
(* has succeeded: with a token configured it logs in first, and when the   *)
(* login fails, or no token is configured, the session fails with no       *)
(* upstream call issued.  The first call of every session is issued with   *)
(* the service logged in.                                                  *)
(***************************************************************************)
\* searchTop3 or getRandomTop3 is called in this step
SessionStarts == ses.pc = "idle" /\ ses'.pc # "idle"

C17_WitnessNoToken ==
    /\ ses.pc = "failed"
    /\ obs.logins = 0
    /\ obs.calls = 0
    /\ config.pixivRefreshToken = ""

(***************************************************************************)
(* C18.  A session fails only when its login failed (or no token was       *)
(* there) or an upstream call was rejected.  Otherwise every call that     *)
(* comes back is followed by the next call or by a return, and a session   *)
(* that returns with the pool short of the target returns the whole pool,  *)
(* be it empty, with the tallies accumulated over its attempts.            *)
(***************************************************************************)
\* the tallies of the returned result are the accumulated ones
TalliesReturned ==
    /\ ses.result.totalScanned = ses.totalScanned
    /\ ses.result.r18Filtered = ses.totalR18Filtered
    /\ ses.result.sensitiveFiltered = ses.totalSensitiveFiltered
    /\ ses.result.bannedFiltered = ses.totalBannedFiltered

C18_PartialResultIsSuccess ==
    /\ [](ses.pc = "failed" => obs.threw \/ obs.calls = 0)
    /\ [](SessionReturned =>
            /\ ~obs.threw
            /\ TalliesReturned
            /\ Len(ses.collectedMap) <= ses.requiredCount =>
                   ses.result.illusts = ses.collectedMap)
    /\ [][(ses.pc = "call" /\ ses' # ses /\ ~obs'.threw) =>
             ses'.pc \in {"call", "returned"}]_vars

\* a search spent its five calls and returned the one item it had found,
\* the target being two
C18_Witness ==
    /\ SessionReturned
    /\ ses.kind = "search"
    /\ obs.calls = 5
    /\ ses.requiredCount = 2
    /\ Len(ses.result.illusts) = 1
    /\ ses.result.totalScanned > 1

\* a session returned nothing after it had spent its budget
C18_WitnessNone ==
    /\ SessionReturned
    /\ obs.calls = maxRetriesOf(ses.kind)
    /\ ses.result.illusts = <<>>
    /\ ses.result.totalScanned > 0

(***************************************************************************)
(* C19.  A returned result never lists more items than the target.  When   *)
(* a call comes back and the pool, with the items of this attempt added    *)
(* behind those it held, has reached the target, the session returns in    *)
(* the same step the first target-many entries of the pool in insertion    *)
(* order, and a session that has returned issues no call.                  *)
(***************************************************************************)
\* the first n entries of seq, in order
FirstEntries(seq, n) == [i \in 1..n |-> seq[i]]

C19_ReturnsAtTarget ==
    /\ [](SessionReturned => Len(ses.result.illusts) <= ses.requiredCount)
    /\ [][/\ (ses.pc = "call" /\ ses' # ses /\ ~obs'.threw) =>
               /\ IsPrefix(ses.collectedMap, ses'.collectedMap)
               /\ Len(ses'.collectedMap) >= ses.requiredCount =>
                    /\ ses'.pc = "returned"
                    /\ ses'.result.illusts =
                          FirstEntries(ses'.collectedMap, ses.requiredCount)
                    /\ obs'.calls = obs.calls
          /\ (SessionReturned /\ ses'.pc # "idle") =>
               obs'.calls = obs.calls /\ ses' = ses]_vars

\* the second call lifted the pool from one item to three and the session
\* returned the first two
C19_Witness ==
    /\ SessionReturned
    /\ ses.requiredCount = 2
    /\ Len(ses.collectedMap) = 3
    /\ Len(ses.result.illusts) = 2
    /\ obs.calls = 2

(***************************************************************************)
(* Recommendation sessions alone, fed also with works that carry no image  *)
(* url, under a fixed configuration.                                       *)
(***************************************************************************)
\* the batches illustRecommended returns
RecommendBatches ==
    { <<>>, <<Work5>>, <<Work2>>, <<Work1>>, <<Work5, Work7>> }

InitRecommend ==
    /\ dataFile = << BannedWord(1, <<"B">>, "fuzzy", TRUE) >>
    /\ loaded = FALSE
    /\ words = <<>>
    /\ nextId = Len(dataFile) + 1
    /\ lastOp = NoOp
    /\ config \in { c \in Configs : /\ c.pixivRefreshToken = "good"
                                    /\ ~c.r18Enabled /\ ~c.sensitiveEnabled
                                    /\ c.resultCount # undefined
                                    /\ c.rateLimitPerMinute = undefined
                                    /\ c.cooldownSeconds = undefined }
    /\ HandlerIdle
    /\ ExtractIdle
    /\ isLoggedIn \in BOOLEAN
    /\ bgInit = "idle"
    /\ ses = NoSession
    /\ obs = NoObs
    /\ envChanges = 0

NextRecommend ==
    \/ getRandomTop3
         /\ UNCHANGED <<wordsVars, config, extractVars, envChanges, handlerVars>>
    \/ \E ok \in BOOLEAN : loginSettles(ok)
         /\ UNCHANGED <<wordsVars, config, extractVars, envChanges, handlerVars>>
    \/ \E illusts \in RecommendBatches :
         \E rnd \in RandomDraws(Len(illusts)), rand \in {0} :
            callReturns(illusts, rnd, rand)
            /\ UNCHANGED <<envChanges, handlerVars>>
    \/ callThrows
         /\ UNCHANGED <<wordsVars, config, extractVars, envChanges, handlerVars>>
    \/ sessionEnds /\ UNCHANGED <<wordsVars, config, envChanges, handlerVars>>

SpecRecommend == InitRecommend /\ [][NextRecommend]_vars

(***************************************************************************)
(* C20.  A recommendation session whose call comes back with fewer than    *)
(* three calls issued returns in that step only when the pool has reached  *)
(* the target or the batch that came back has no item; when the batch has  *)
(* items and none of them was accepted, the next call is issued.           *)
(***************************************************************************)
\* a call of a recommendation session comes back with budget left
RecommendedBatchArrives ==
    /\ ses.kind = "recommend"
    /\ ses.pc = "call"
    /\ ses' # ses
    /\ ~obs'.threw
    /\ obs.calls < 3

C20_StopsOnlyOnEmptyBatch ==
    [][RecommendedBatchArrives =>
         /\ ses'.pc = "returned" =>
               \/ Len(ses'.collectedMap) >= ses.requiredCount
               \/ exBatch' = <<>>
         /\ (exBatch' # <<>> /\ exOut'.illusts = <<>>) =>
               ses'.pc = "call" /\ obs'.calls = obs.calls + 1]_vars

\* a batch of one work without image url came back first and the session
\* returned nothing after that one call
C20_StoppedOnUnusableBatch ==
    /\ SessionReturned
    /\ ses.kind = "recommend"
    /\ obs.calls = 1
    /\ exBatch = <<Work5>>
    /\ ses.result.illusts = <<>>
    /\ ses.result.totalScanned = 1

(***************************************************************************)
(* C21.  A session that starts while the configured refresh token is       *)
(* missing or invalid, no login of a configuration hook being under way,   *)
(* issues no upstream call: it fails at once or logs in first, and that    *)
(* login fails.                                                            *)
(***************************************************************************)
\* the configured refresh token is missing or invalid
CredentialUnusable == config.pixivRefreshToken \in {"", "bad"}

C21_UnusableCredentialFails ==
    [][/\ (SessionStarts /\ CredentialUnusable /\ bgInit = "idle") =>
             /\ obs'.calls = 0
             /\ ses'.pc \in {"failed", "login"}
       /\ (ses.pc = "login" /\ ses.token \in {"", "bad"} /\ ses'.pc # "login") =>
             ses'.pc = "failed" /\ obs'.calls = 0]_vars

(***************************************************************************)
(* C22.  In a search the offset ceiling of the first call is 300; the      *)
(* ceiling of the next call is one step lower in 300, 200, 100, 50, 0 when *)
(* the batch that came back had no raw item and is the same otherwise,     *)
(* also when the filters left nothing of a batch; the offset of every call *)
(* is an integer from 0 to the ceiling of that call.                       *)
(***************************************************************************)
\* the ceiling one step below c
StepDown(c) ==
    CASE c = 300 -> 200 [] c = 200 -> 100 [] c = 100 -> 50 [] OTHER -> 0

C22_OffsetCeiling ==
    /\ []((ses.kind = "search" /\ ses.pc = "call") =>
            /\ ses.maxOffset \in {300, 200, 100, 50, 0}
            /\ ses.randomOffset \in 0..ses.maxOffset
            /\ ses.attempt = 0 => ses.maxOffset = 300)
    /\ [][(ses.kind = "search" /\ ses.pc = "call" /\ ses'.pc = "call"
             /\ ses' # ses) =>
             ses'.maxOffset = IF exBatch' = <<>> THEN StepDown(ses.maxOffset)
                              ELSE ses.maxOffset]_vars

\* the fifth call of a search, after four empty batches, at ceiling 0
C22_Witness ==
    /\ ses.kind = "search"
    /\ ses.pc = "call"
    /\ ses.attempt = 4
    /\ ses.maxOffset = 0
    /\ ses.totalScanned = 0

\* a batch all of whose items were filtered left the ceiling at 300, and
\* the next offset was drawn at the ceiling
C22_WitnessFiltered ==
    /\ ses.kind = "search"
    /\ ses.pc = "call"
    /\ ses.attempt = 1
    /\ exBatch # <<>>
    /\ exOut.illusts = <<>>
    /\ ses.maxOffset = 300
    /\ ses.randomOffset = 300

(***************************************************************************)
(* C23.  The totals of a session are zero at its first call, and every     *)
(* call that comes back adds the size of its raw batch to totalScanned and *)
(* the three rejection counts of that batch to the three rejection totals, *)
(* also when the pool gains nothing from the attempt; the tallies of the   *)
(* returned result are these totals.                                       *)
(***************************************************************************)
\* the four totals of the session record s
TotalsOf(s) ==
    <<s.totalScanned, s.totalR18Filtered, s.totalSensitiveFiltered,
      s.totalBannedFiltered>>

C23_TalliesAreSums ==
    /\ []((ses.pc = "call" /\ ses.attempt = 0) => TotalsOf(ses) = <<0, 0, 0, 0>>)
    /\ [](SessionReturned =>
            <<ses.result.totalScanned, ses.result.r18Filtered,
              ses.result.sensitiveFiltered, ses.result.bannedFiltered>>
                = TotalsOf(ses))
    /\ [][(ses.pc = "call" /\ ses' # ses /\ ~obs'.threw) =>
             TotalsOf(ses') =
                <<ses.totalScanned + Len(exBatch'),
                  ses.totalR18Filtered + exOut'.r18Filtered,
                  ses.totalSensitiveFiltered + exOut'.sensitiveFiltered,
                  ses.totalBannedFiltered + exOut'.bannedFiltered>>]_vars

\* the second batch brought only the work the pool already held: the pool
\* stayed at one item and the batch was counted
C23_Witness ==
    /\ ses.pc = "call"
    /\ ses.attempt = 2
    /\ Len(ses.collectedMap) = 1
    /\ exOut.illusts = ses.collectedMap
    /\ ses.totalScanned = 2

(***************************************************************************)
(* C24.  Of the items the loop examines, the maturity tally counts those   *)
(* the maturity filter rejects, the sensitivity tally those that pass it   *)
(* and are rejected by the sensitivity filter, the banned-word tally those *)
(* that pass both and match a rule; a filter that is switched off rejects  *)
(* nothing.  So no item is counted twice: an item both restricted and      *)
(* sensitive counts as a maturity rejection when both filters are on.      *)
(***************************************************************************)
\* the positions up to n of order that the maturity filter rejects
MaturityRejects(order, n) ==
    { i \in 1..n : ~config.r18Enabled /\ MaturityRestricted(order[i]) }

\* those that the sensitivity filter would reject
SensitivityRejects(order, n) ==
    { i \in 1..n : ~config.sensitiveEnabled /\ Sensitive(order[i]) }

\* those that match an enabled rule
BannedRejects(order, n) ==
    { i \in 1..n : BannedMatch(ensureLoaded, order[i]) }

C24_FirstFilterCounts ==
    ExtractDone =>
        LET n == Examined(config, ensureLoaded, exOrder)
            m == MaturityRejects(exOrder, n)
            s == SensitivityRejects(exOrder, n)
            b == BannedRejects(exOrder, n)
        IN /\ exOut.r18Filtered = Cardinality(m)
           /\ exOut.sensitiveFiltered = Cardinality(s \ m)
           /\ exOut.bannedFiltered = Cardinality(b \ (m \cup s))
           /\ exOut.r18Filtered + exOut.sensitiveFiltered + exOut.bannedFiltered
                 = Cardinality(m \cup s \cup b)

\* with both filters on, a work that is restricted and sensitive was counted
\* as a maturity rejection, and a sensitive work that matches a rule as a
\* sensitivity rejection
C24_Witness ==
    /\ ExtractDone
    /\ ~config.r18Enabled
    /\ ~config.sensitiveEnabled
    /\ \E i, j \in 1..Len(exOrder) :
          /\ exOrder[i] = Work2
          /\ exOrder[j] = Work3
    /\ BannedMatch(ensureLoaded, Work3)
    /\ exOut.r18Filtered = 1
    /\ exOut.sensitiveFiltered = 1
    /\ exOut.bannedFiltered = 0

(***************************************************************************)
(* buildForwardNodes and sendForwardMsg alone, on results of one to three  *)
(* items, some of whose files may be in the temporary directory already.   *)
(***************************************************************************)
\* the items a result is made of
ResultItems == { SafeIllust(Work1), SafeIllust(Work4), SafeIllust(Work7) }

\* result.illusts of a session that found something: distinct items
ForwardResults ==
    { r \in SeqsUpTo(ResultItems, MaxBatch) :
        /\ Len(r) > 0
        /\ \A i, j \in 1..Len(r) : i # j => r[i] # r[j] }

\* the command whose result is handed to buildForwardNodes
ForwardEvent == Event("group", 1, 1, TRUE, TRUE, "p站", << <<"a">> >>)

InitForward ==
    /\ words = <<>>
    /\ loaded = FALSE
    /\ dataFile = <<>>
    /\ nextId = 1
    /\ lastOp = NoOp
    /\ config = [r18Enabled |-> FALSE, sensitiveEnabled |-> FALSE,
                 resultCount |-> undefined, pixivRefreshToken |-> "good",
                 rateLimitPerMinute |-> undefined, cooldownSeconds |-> undefined]
    /\ ExtractIdle
    /\ ServiceIdle
    /\ now = 0
    /\ requestTimestamps = <<>>
    /\ cooldownMap = NoCooldowns
    /\ tempFiles \in SUBSET { basename(i.imageUrl) : i \in ResultItems }
    /\ \E illusts \in ForwardResults :
          cmd = [NoCommand EXCEPT !.pc = "download", !.seq = 1,
                                  !.event = ForwardEvent,
                                  !.keyword = <<"a">>, !.illusts = illusts]
    /\ sent = Reply(1, ForwardEvent, "searching", 0)
    /\ msgCount = 1
    /\ processed = 0
    /\ hist = NoHistory
    /\ fetches = <<>>

NextForward ==
    \/ \E failed \in SUBSET (1..MaxBatch) : buildForwardNodes(failed)
    \/ \E ok \in BOOLEAN : sendForwardMsg(ok)
    \/ cleanupCache({})

SpecForward == InitForward /\ [][NextForward]_vars

(***************************************************************************)
(* C25.  buildForwardNodes hands on one node.  Its content is the title    *)
(* segment and then, for each item whose download was fulfilled and in the *)
(* order of the result, the image segment of the downloaded file followed  *)
(* at once by the caption of that item; an item whose download was         *)
(* rejected is left out and the items after it are still there.            *)
(***************************************************************************)
\* the downloads have settled and the node is built in this step
NodesBuilt == cmd.pc = "download" /\ cmd'.pc = "forward"

\* the positions of r whose download was fulfilled
Fulfilled(r) == { i \in 1..Len(r) : r[i].status = "fulfilled" }

\* the rank of position i among the fulfilled positions of r
RankIn(r, i) == Cardinality({ j \in Fulfilled(r) : j <= i })

C25_ForwardBundle ==
    [][NodesBuilt =>
         LET r == cmd'.downloadResults
             content == cmd'.nodes[1].content
         IN /\ Len(cmd'.nodes) = 1
            /\ Len(r) = Len(cmd.illusts)
            /\ \A i \in 1..Len(r) :
                  r[i].status = "fulfilled"
                     <=> basename(cmd.illusts[i].imageUrl) \in tempFiles'
            /\ Len(content) = 1 + 2 * Cardinality(Fulfilled(r))
            /\ content[1] = titleSegment
            /\ \A i \in Fulfilled(r) :
                  /\ content[2 * RankIn(r, i)].type = "image"
                  /\ content[2 * RankIn(r, i)].file
                        = filePathOf(cmd.illusts[i].imageUrl)
                  /\ content[2 * RankIn(r, i) + 1]
                        = captionSegment(cmd.illusts[i])]_vars

\* of three items the second download failed: the node holds the title and
\* the first and third item
C25_Witness ==
    /\ cmd.pc = "forward"
    /\ Len(cmd.illusts) = 3
    /\ Fulfilled(cmd.downloadResults) = {1, 3}
    /\ Len(cmd.nodes[1].content) = 5
    /\ cmd.nodes[1].content[5] = captionSegment(cmd.illusts[3])

(***************************************************************************)
(* C26.  When every download of a result fails, the command is answered    *)
(* with the download-failure reply and no forward message is sent.         *)
(***************************************************************************)
\* the downloads have settled in this step and none of them was fulfilled
AllDownloadsFailed ==
    /\ cmd.pc = "download"
    /\ cmd'.pc # "download"
    /\ \A i \in 1..Len(cmd.illusts) :
          basename(cmd.illusts[i].imageUrl) \notin tempFiles'

C26_AllFailedIsAnswered ==
    [][AllDownloadsFailed =>
         /\ sent'.text = "downloadFailed"
         /\ sent'.seq = cmd.seq
         /\ cmd'.pc = "idle"]_vars

\* every download of a result of two failed and a node with the title alone
\* goes to sendForwardMsg
C26_TitleOnlyForwarded ==
    /\ cmd.pc = "forward"
    /\ Len(cmd.illusts) = 2
    /\ Fulfilled(cmd.downloadResults) = {}
    /\ cmd.nodes = << [nickname |-> "Pixiv Bot", content |-> <<titleSegment>>] >>

(***************************************************************************)
(* C27.  A download that fails is reported as rejected, and a call of      *)
(* downloadImage returns a cached path only when an earlier call for that  *)
(* file name has downloaded it to the end: a failed download leaves        *)
(* nothing that a later call takes for the file.                           *)
(***************************************************************************)
\* call j returned the path of a file that was there already
CacheHit(j) == fetches[j].status = "fulfilled" /\ ~fetches[j].network

\* call i downloaded the file of call j to the end, before call j
DownloadedBefore(i, j) ==
    /\ i < j
    /\ basename(fetches[i].imageUrl) = basename(fetches[j].imageUrl)
    /\ fetches[i].network
    /\ fetches[i].status = "fulfilled"

C27_FailedDownloadLeavesNoFile ==
    \A j \in 1..Len(fetches) :
        CacheHit(j) => \E i \in 1..Len(fetches) : DownloadedBefore(i, j)

\* the download of the first call failed and the second call, for the same
\* url, returned the path at once
C27_PartialFileServed ==
    /\ Len(fetches) = 2
    /\ fetches[1].status = "rejected"
    /\ fetches[2].imageUrl = fetches[1].imageUrl
    /\ CacheHit(2)
    /\ fetches[2].path = filePathOf(fetches[1].imageUrl)

(***************************************************************************)
(* C28.  A cleanup that removes the directory leaves no file, and the      *)
(* files that are there are those that a download has written since.  So a *)
(* call of downloadImage returns a cached path exactly when a download for *)
(* that file name has written the file since the last such cleanup, and    *)
(* downloads from the network otherwise.  A cleanup whose removal throws   *)
(* ends with the error caught.                                             *)
(***************************************************************************)
\* a cleanup ran in this step, after a call that no cleanup had followed yet
CleanupRan ==
    \E i \in 1..Len(fetches) : ~fetches[i].cleaned /\ fetches'[i].cleaned

\* the calls among those of the set that were for the file of call j
ForFileOf(j, calls) ==
    { i \in calls :
        basename(fetches[i].imageUrl) = basename(fetches[j].imageUrl) }

C28_CleanupEmptiesCache ==
    /\ [](tempFiles = { basename(fetches[i].imageUrl) :
                          i \in { k \in 1..Len(fetches) : fetches[k].onDisk } })
    /\ [](\A j \in 1..Len(fetches) :
            /\ fetches[j].network <=> ForFileOf(j, fetches[j].written) = {}
            /\ fetches[j].status = "pending" => fetches[j].network)
    /\ [](hist.cleanup \in {"none", "removed", "caught"})
    /\ [][(CleanupRan /\ hist'.cleanup = "removed") =>
             /\ tempFiles' = {}
             /\ \A i \in 1..Len(fetches) : ~fetches'[i].onDisk]_vars

\* a file was downloaded, the cache was removed, and the next call for the
\* same url downloaded again
C28_Witness ==
    /\ Len(fetches) = 2
    /\ fetches[1].status = "fulfilled"
    /\ fetches[1].network
    /\ fetches[1].cleaned
    /\ hist.cleanup = "removed"
    /\ fetches[2].imageUrl = fetches[1].imageUrl
    /\ fetches[2].network
    /\ fetches[2].written = {}

\* the removal threw with the file still there, and the next call for the
\* same url was a cache hit
C28_WitnessCaught ==
    /\ Len(fetches) = 2
    /\ fetches[1].status = "fulfilled"
    /\ fetches[1].cleaned
    /\ hist.cleanup = "caught"
    /\ fetches[2].imageUrl = fetches[1].imageUrl
    /\ CacheHit(2)

(***************************************************************************)
(* A group is on cooldown when the cooldown is enabled and less than the   *)
(* configured seconds have passed since the gate last admitted a command   *)
(* of the group.                                                           *)
(***************************************************************************)
OnCooldown(g) ==
    /\ cdSecondsOf(config) > 0
    /\ hist.triggered[g] # undefined
    /\ now < CooldownEnd(g)

CooldownValues == {undefined, 2, 3}

CooldownEvents ==
    { Event("group", 1, 1, TRUE, TRUE, "ping", <<>>),
      Event("group", 2, 1, TRUE, TRUE, "ping", <<>>) }

\* the readings of the clock
CooldownTimes == {0, 500, 2000, 3000}

InitCooldown ==
    /\ dataFile = << BannedWord(1, <<"B">>, "fuzzy", TRUE) >>
    /\ loaded = FALSE
    /\ words = <<>>
    /\ nextId = Len(dataFile) + 1
    /\ lastOp = NoOp
    /\ config \in { c \in Configs : /\ c.pixivRefreshToken = "good"
                                    /\ ~c.r18Enabled /\ ~c.sensitiveEnabled
                                    /\ c.resultCount = 1
                                    /\ c.rateLimitPerMinute = 0
                                    /\ c.cooldownSeconds = 2 }
    /\ ExtractIdle
    /\ ServiceIdle
    /\ HandlerIdle

NextCooldown ==
    \/ \E event \in CooldownEvents : msgCount < MaxChecks /\ handleMessage(event)
    \/ \E t \in CooldownTimes : tick(t)
    \/ \E value \in CooldownValues :
         plugin_on_config_change("cooldownSeconds", value) /\ envChange
         /\ UNCHANGED <<wordsVars, extractVars, handlerRest>>
    \/ \E value \in CooldownValues :
         plugin_set_config([config EXCEPT !.cooldownSeconds = value]) /\ envChange
         /\ UNCHANGED <<wordsVars, extractVars, handlerRest>>
    \/ \E ok \in BOOLEAN : initSettles(ok)
         /\ UNCHANGED <<wordsVars, extractVars, envChanges, handlerVars>>

SpecCooldown == InitCooldown /\ [][NextCooldown]_vars

\* a ping or p站 command of group g that arrived now would be turned away
\* with the cooldown reply
TurnedAway(cfg, map, g, t) == getCooldownRemaining(cfg, map, g, t) > 0

(***************************************************************************)
(* C30: a step that changes cooldownSeconds, by plugin_on_config_change or *)
(* by plugin_set_config, leaves no group on cooldown.                      *)
(***************************************************************************)
C30_ChangeResetsCooldowns ==
    [][config'.cooldownSeconds # config.cooldownSeconds
         => \A g \in Groups : ~TurnedAway(config', cooldownMap', g, now')]_vars

\* group 1 was admitted at 0 under a cooldown of 2 seconds, the cooldown is
\* now 3 seconds, and the entry of group 1 is still in force
C30_ReplacementKeepsCooldown ==
    /\ config.cooldownSeconds = 3
    /\ cooldownMap[1] = 2000
    /\ now = 500
    /\ TurnedAway(config, cooldownMap, 1, now)

\* the records of a are the last Len(a) records of b
IsSuffix(a, b) ==
    /\ Len(a) <= Len(b)
    /\ \A i \in 1..Len(a) : a[i] = b[Len(b) - Len(a) + i]

(***************************************************************************)
(* C31.  With a limit > 0, after a rate-limit check the window holds no    *)
(* timestamp that is 60 seconds old or older; after an admitted check it   *)
(* holds at most limit timestamps, the last of them the time of the check; *)
(* a rejected check adds no timestamp: the window is then what is left of  *)
(* the window before.                                                      *)
(***************************************************************************)
C31_WindowAfterCheck ==
    [][RateChecked /\ limitOf(config) > 0 =>
         /\ \A i \in 1..Len(requestTimestamps') :
               requestTimestamps'[i] > now - windowMs
         /\ sent'.text # "rateLimited" =>
               /\ Len(requestTimestamps') <= limitOf(config)
               /\ requestTimestamps'[Len(requestTimestamps')] = now
               /\ IsSuffix(SubSeq(requestTimestamps', 1, Len(requestTimestamps') - 1),
                           requestTimestamps)
         /\ sent'.text = "rateLimited" =>
               IsSuffix(requestTimestamps', requestTimestamps)]_vars

\* limit 2: two checks admitted at 0 and 500, one rejected before 60000, and
\* the check at 60000 is admitted after the record 0 was dropped
C31_Witness ==
    /\ config.rateLimitPerMinute = 2
    /\ msgCount = 4
    /\ hist.admitted = <<0, 500, 60000>>
    /\ requestTimestamps = <<500, 60000>>
    /\ now = 60000
    /\ sent.text # "rateLimited"

\* limit 1: the check at 59500 was rejected and left the window as it was
C31_WitnessRejected ==
    /\ config.rateLimitPerMinute = 1
    /\ now = 59500
    /\ sent.text = "rateLimited"
    /\ requestTimestamps = <<0>>

\* every regex rule of the list has a pattern that compiles
RegexRulesCompile(ws) ==
    \A i \in 1..Len(ws) :
        ws[i].matchType = "regex" => RegExpCompiles(ws[i].pattern)

(***************************************************************************)
(* C32.  From a rule list in which every regex rule compiles, after any    *)
(* sequence of add, update and remove, successful or failed, every regex   *)
(* rule of the list in memory and of the persisted list has a pattern that *)
(* compiles; an update that changes the matchType alone to regex is        *)
(* checked against the pattern the rule has.                               *)
(***************************************************************************)
C32_RegexRulesCompile ==
    /\ RegexRulesCompile(words)
    /\ RegexRulesCompile(dataFile)
    /\ RegexRulesCompile(ensureLoaded)

\* the rule holds the pattern "(" under another match type, and the update
\* that would have made it a regex rule failed
C32_Witness ==
    /\ lastOp.op = "update"
    /\ ~lastOp.ok
    /\ lastOp.matchType = "regex"
    /\ lastOp.text = <<"(">>
    /\ findIndex(words, lastOp.id) # 0
    /\ words[findIndex(words, lastOp.id)].pattern = <<"(">>
    /\ words[findIndex(words, lastOp.id)].matchType = "fuzzy"
    /\ Len(words) = 2

\* the list without the rules of this id, the others in their order
Without(ws, id) == SelectSeq(ws, LAMBDA w : w.id # id)

\* the call of this step is an add, update or remove
WriteCalled == lastOp'.op \in {"add", "update", "remove"}

\* the id given to the update or remove of this step is that of no rule
UnknownId ==
    /\ lastOp'.op \in {"update", "remove"}
    /\ \A i \in 1..Len(ensureLoaded) : ensureLoaded[i].id # lastOp'.id

\* the add, update or remove of this step succeeded
WriteSucceeded ==
    /\ WriteCalled
    /\ lastOp'.ok
    /\ ~UnknownId

(***************************************************************************)
(* C33.  After a successful add, update or remove the list was saved and   *)
(* the persisted list equals the list in memory; add appends the new rule, *)
(* enabled, at the end; update keeps every rule at its place; remove       *)
(* deletes the targeted rule alone and keeps the order of the others; an   *)
(* update or remove of an unknown id changes neither list and saves        *)
(* nothing.                                                                *)
(***************************************************************************)
C33_PersistedEqualsMemory ==
    [][WriteCalled =>
         /\ WriteSucceeded =>
               /\ lastOp'.saved
               /\ dataFile' = words'
         /\ (WriteSucceeded /\ lastOp'.op = "add") =>
               /\ words' = Append(ensureLoaded, lastOp'.hit)
               /\ lastOp'.hit.enabled
               /\ lastOp'.hit.pattern = lastOp'.text
               /\ lastOp'.hit.matchType = lastOp'.matchType
               /\ \A i \in 1..Len(ensureLoaded) : ensureLoaded[i].id # lastOp'.hit.id
         /\ (WriteSucceeded /\ lastOp'.op = "update") =>
               /\ Len(words') = Len(ensureLoaded)
               /\ \A i \in 1..Len(ensureLoaded) :
                     /\ words'[i].id = ensureLoaded[i].id
                     /\ ensureLoaded[i].id # lastOp'.id => words'[i] = ensureLoaded[i]
         /\ (WriteSucceeded /\ lastOp'.op = "remove") =>
               /\ words' = Without(ensureLoaded, lastOp'.id)
               /\ Len(words') = Len(ensureLoaded) - 1
         /\ UnknownId =>
               /\ ~lastOp'.saved
               /\ words' = ensureLoaded
               /\ dataFile' = dataFile]_vars

\* the first of two rules was removed: the second is left, in both lists
C33_Witness ==
    /\ lastOp.op = "remove"
    /\ lastOp.ok
    /\ lastOp.saved
    /\ lastOp.id = 1
    /\ Len(words) = 1
    /\ words[1].id = 2
    /\ dataFile = words

\* an update of an id that no rule has left both lists alone
C33_WitnessUnknownId ==
    /\ lastOp.op = "update"
    /\ ~lastOp.saved
    /\ Len(words) = 2
    /\ \A i \in 1..Len(words) : words[i].id # lastOp.id
    /\ dataFile = words

(***************************************************************************)
(* matchText on rule lists as banned-words.json may hold them: the file is *)
(* read as it is by ensureLoaded, so a regex rule in it need not compile.  *)
(***************************************************************************)
\* the rules found in the file
StoredRules ==
    { BannedWord(1, <<"(">>, "regex", TRUE),
      BannedWord(2, <<"B">>, "exact", TRUE),
      BannedWord(2, <<"B">>, "exact", FALSE),
      BannedWord(3, <<"a">>, "fuzzy", TRUE),
      BannedWord(3, <<"a">>, "fuzzy", FALSE),
      BannedWord(4, <<"a", ".">>, "regex", TRUE) }

\* the rule lists found in the file: no id twice
StoredLists ==
    { ws \in SeqsUpTo(StoredRules, MaxRules) :
        \A i, j \in 1..Len(ws) : ws[i].id = ws[j].id => i = j }

InitMatch ==
    /\ dataFile \in StoredLists
    /\ loaded = FALSE
    /\ words = <<>>
    /\ nextId = 5
    /\ lastOp = NoOp
    /\ config = [r18Enabled |-> FALSE, sensitiveEnabled |-> FALSE,
                 resultCount |-> undefined, pixivRefreshToken |-> "",
                 rateLimitPerMinute |-> undefined, cooldownSeconds |-> undefined]
    /\ ExtractIdle
    /\ ServiceIdle
    /\ HandlerIdle

NextMatch ==
    \/ \E k \in Texts : checkKeyword(k)
         /\ UNCHANGED <<config, extractVars, serviceVars, handlerVars>>
    \/ reload /\ UNCHANGED <<config, extractVars, serviceVars, handlerVars>>

SpecMatch == InitMatch /\ [][NextMatch]_vars

\* new RegExp(word.pattern, 'i') throws for this rule
ThrowsAtMatch(word) ==
    word.enabled /\ word.matchType = "regex" /\ ~RegExpCompiles(word.pattern)

(***************************************************************************)
(* C34.  A check of a text against a list that holds enabled regex rules   *)
(* whose pattern does not compile does not fail; such a rule is never the  *)
(* rule returned, and the check returns what it returns on the list        *)
(* without these rules: the rules after them are still tried, in order.    *)
(***************************************************************************)
C34_UncompilableRuleSkipped ==
    lastOp.op = "checkKeyword" =>
        /\ lastOp.ok
        /\ lastOp.hit # Null => ~ThrowsAtMatch(lastOp.hit)
        /\ lastOp.hit =
              checkKeywordOn(SelectSeq(words, LAMBDA w : ~ThrowsAtMatch(w)),
                             lastOp.text)

\* the rule after the one that does not compile is returned
C34_Witness ==
    /\ lastOp.op = "checkKeyword"
    /\ Len(words) = 2
    /\ ThrowsAtMatch(words[1])
    /\ lastOp.hit = words[2]

\* a and b are equal when the case of the letters is ignored
EqualIgnoringCase(a, b) ==
    /\ Len(a) = Len(b)
    /\ \A i \in 1..Len(a) : LowerChar(a[i]) = LowerChar(b[i])

\* p occurs in t somewhere when the case of the letters is ignored
ContainsIgnoringCase(t, p) ==
    \E off \in 0..(Len(t) - Len(p)) :
        EqualIgnoringCase(SubSeq(t, off + 1, off + Len(p)), p)

(***************************************************************************)
(* C35.  Checked against a list of one exact rule, a text is matched if    *)
(* and only if the rule is enabled and the text equals the pattern when    *)
(* letter case is ignored; against a list of one fuzzy rule, if and only   *)
(* if the rule is enabled and the text contains the pattern when letter    *)
(* case is ignored.                                                        *)
(***************************************************************************)
C35_ExactAndFuzzy ==
    (lastOp.op = "checkKeyword" /\ Len(words) = 1) =>
        /\ words[1].matchType = "exact" =>
              (lastOp.hit = words[1] <=>
                 words[1].enabled /\ EqualIgnoringCase(lastOp.text, words[1].pattern))
        /\ words[1].matchType = "fuzzy" =>
              (lastOp.hit = words[1] <=>
                 words[1].enabled /\ ContainsIgnoringCase(lastOp.text, words[1].pattern))
        /\ lastOp.hit \in {Null, words[1]}

\* the fuzzy rule "a" matched the text "Ab", which holds it in upper case
C35_Witness ==
    /\ lastOp.op = "checkKeyword"
    /\ Len(words) = 1
    /\ words[1] = BannedWord(3, <<"a">>, "fuzzy", TRUE)
    /\ lastOp.text = <<"A", "b">>
    /\ lastOp.hit = words[1]

\* the exact rule "B" matched the text "b" and not the text "Ab"
C35_WitnessExact ==
    /\ lastOp.op = "checkKeyword"
    /\ Len(words) = 1
    /\ words[1] = BannedWord(2, <<"B">>, "exact", TRUE)
    /\ lastOp.text = <<"b">>
    /\ lastOp.hit = words[1]

\* the same fuzzy rule, disabled, matched nothing
C35_WitnessDisabled ==
    /\ lastOp.op = "checkKeyword"
    /\ Len(words) = 1
    /\ words[1] = BannedWord(3, <<"a">>, "fuzzy", FALSE)
    /\ lastOp.text = <<"A", "b">>
    /\ lastOp.hit = Null

\* the session a command awaited has settled in this step
AwaitedSessionSettles == cmd.pc = "session" /\ cmd'.pc # "session"

\* the positive tallies of a result, as the reply lists them
PositiveTallies(result) ==
    { <<"R-18", result.r18Filtered>>, <<"sensitive", result.sensitiveFiltered>>,
      <<"banned", result.bannedFiltered>> } \ { <<"R-18", 0>>, <<"sensitive", 0>>, <<"banned", 0>> }

(***************************************************************************)
(* C36.  When the acquisition a command awaited returns no items, the      *)
(* reply says that the candidates were filtered, and lists the positive    *)
(* tallies, exactly when one of the three accumulated tallies is positive, *)
(* and says that nothing was found when all three are zero; when the       *)
(* acquisition failed the reply is the failure reply and neither of them;  *)
(* when items were returned none of the three is sent.                     *)
(***************************************************************************)
C36_EmptyResultReply ==
    [][AwaitedSessionSettles =>
         /\ (ses.pc = "returned" /\ Len(ses.result.illusts) = 0) =>
               /\ sent'.seq = cmd.seq
               /\ sent'.text \in {"allFiltered", "notFound"}
               /\ sent'.text = "allFiltered" <=>
                     \/ ses.result.r18Filtered > 0
                     \/ ses.result.sensitiveFiltered > 0
                     \/ ses.result.bannedFiltered > 0
               /\ { sent'.parts[i] : i \in 1..Len(sent'.parts) }
                     = PositiveTallies(ses.result)
               /\ Len(sent'.parts) = Cardinality(PositiveTallies(ses.result))
         /\ ses.pc = "failed" =>
               /\ sent'.seq = cmd.seq
               /\ sent'.text = "failed"
         /\ (ses.pc = "returned" /\ Len(ses.result.illusts) > 0) =>
               sent' = sent]_vars

\* the one candidate was rejected as R-18: the reply lists that count
C36_Witness ==
    /\ sent.text = "allFiltered"
    /\ sent.parts = << <<"R-18", 1>> >>
    /\ cmd.pc = "idle"

\* an empty upstream response: nothing was found
C36_WitnessNotFound ==
    /\ sent.text = "notFound"
    /\ sent.parts = <<>>
    /\ cmd.pc = "idle"

\* the acquisition failed
C36_WitnessFailed ==
    /\ sent.text = "failed"
    /\ cmd.pc = "idle"

\* a call of a search awaits its response
SearchCalls == ses.kind = "search" /\ ses.pc = "call"

\* the response of the awaited call arrives in this step
ResponseArrives == ses.pc = "call" /\ ses' # ses /\ ses'.pc # "failed"

\* the ceilings of the calls of a search whose responses are all empty
EmptyCeilings == <<300, 200, 100, 50, 0>>

(***************************************************************************)
(* C37.  In searchTop3 an empty response to a call made with ceiling 0     *)
(* ends the session with no further call; a call is made with ceiling 0    *)
(* only as the fifth call, after four empty responses (nothing was scanned *)
(* so far); while every response is empty the calls are made with the      *)
(* ceilings 300, 200, 100, 50, 0 in turn, and a search that returns with   *)
(* nothing scanned has made exactly five calls.                            *)
(***************************************************************************)
C37_EmptyFeedStopsAfterFive ==
    /\ [][(SearchCalls /\ ses.maxOffset = 0 /\ ResponseArrives /\ exBatch' = <<>>) =>
            /\ ses'.pc = "returned"
            /\ obs'.calls = obs.calls]_vars
    /\ []((SearchCalls /\ ses.maxOffset = 0) =>
            /\ obs.calls = 5
            /\ ses.attempt = 4
            /\ ses.totalScanned = 0)
    /\ []((SearchCalls /\ ses.totalScanned = 0) =>
            /\ obs.calls \in 1..5
            /\ ses.maxOffset = EmptyCeilings[obs.calls])
    /\ []((ses.kind = "search" /\ ses.pc = "returned" /\ ses.totalScanned = 0) =>
            /\ obs.calls = 5
            /\ ses.maxOffset = 0
            /\ ses.result.illusts = <<>>)

\* a search returned after five empty responses
C37_Witness ==
    /\ ses.kind = "search"
    /\ ses.pc = "returned"
    /\ ses.totalScanned = 0
    /\ obs.calls = 5
    /\ ses.maxOffset = 0
    /\ exBatch = <<>>

\* the message handled in this step is a p站 command of a group that got as
\* far as the rate-limit check
GroupPixivCommand ==
    /\ RateChecked
    /\ inGroup(sent'.event)
    /\ sent'.event.sub = "p站"

\* the command of a group that the pipeline worked on is answered in this step
GroupCommandAnswered ==
    /\ cmd.pc # "idle"
    /\ cmd'.pc = "idle"
    /\ inGroup(cmd.event)

C38_WitnessFailed ==
    /\ sent.text = "failed"
    /\ inGroup(sent.event)
    /\ cooldownMap[sent.event.group_id] > now

C38_WitnessNotFound ==
    /\ sent.text = "notFound"
    /\ inGroup(sent.event)
    /\ cooldownMap[sent.event.group_id] > now

\* a p站 command of the group was turned away by the cooldown check, and
\* the entry is the one the earlier command had set
C38_WitnessRejected ==
    /\ sent.text = "cooldown"
    /\ sent.event.sub = "p站"
    /\ now = 500
    /\ cooldownMap[sent.event.group_id] = 2000

\* the message handled in this step belongs to the group of a command that
\* is suspended in the pipeline, and it meets the cooldown gate
HandledWhileSuspended ==
    /\ CooldownChecked
    /\ cmd.pc # "idle"
    /\ inGroup(cmd.event)
    /\ cmd.event.group_id = sent'.event.group_id

(***************************************************************************)
(* C39.  With a cooldown of c > 0 seconds, a ping or p站 command of a      *)
(* group that is handled while an earlier command of the same group is     *)
(* suspended is turned away as long as less than c seconds have passed     *)
(* since the group's latest admitted command, and admitted afterwards:     *)
(* the check of every command sees the cooldown the command admitted       *)
(* before it has started, so no two commands of a group are admitted       *)
(* within one cooldown period.                                             *)
(***************************************************************************)
C39_OneAdmittedPerPeriod ==
    /\ [][(HandledWhileSuspended /\ cdSecondsOf(config) > 0) =>
            LET g == sent'.event.group_id IN
            /\ hist.triggered[g] # undefined
            /\ cooldownMap[g] = CooldownEnd(g)
            /\ IF now < CooldownEnd(g)
               THEN /\ sent'.text = "cooldown"
                    /\ hist'.triggered = hist.triggered
                    /\ cooldownMap' = cooldownMap
               ELSE /\ sent'.text # "cooldown"
                    /\ hist'.triggered[g] = now]_vars
    /\ [][(MessageHandled /\ cdSecondsOf(config) > 0) =>
            \A g \in Groups :
                hist'.triggered[g] # hist.triggered[g] =>
                    \/ hist.triggered[g] = undefined
                    \/ hist'.triggered[g] >= hist.triggered[g] + cdSecondsOf(config) * 1000]_vars

\* a second command of the group arrived within the period while the first
\* awaited its acquisition or its downloads, and was turned away
C39_Witness ==
    /\ sent.text = "cooldown"
    /\ cmd.pc \in {"session", "download", "forward"}
    /\ inGroup(cmd.event)
    /\ cmd.event.group_id = sent.event.group_id
    /\ sent.seq > cmd.seq
    /\ now < CooldownEnd(sent.event.group_id)

\* a command of the group arrived after the period, the first still
\* suspended, and was admitted
C39_WitnessAfterPeriod ==
    /\ sent.text = "pong"
    /\ cmd.pc \in {"session", "download", "forward"}
    /\ inGroup(cmd.event)
    /\ cmd.event.group_id = sent.event.group_id
    /\ sent.seq > cmd.seq
    /\ cdSecondsOf(config) > 0
    /\ hist.triggered[sent.event.group_id] = now
    /\ now >= 2000

\* the calls of downloadImage whose download to this path is in flight
InFlight(filePath) ==
    { i \in 1..Len(fetches) :
        /\ fetches[i].status = "pending"
        /\ fetches[i].network
        /\ filePathOf(fetches[i].imageUrl) = filePath }

(***************************************************************************)
(* C40.  No two downloads that write the same cache path are in flight at  *)
(* the same time: a call of downloadImage made while a download of the     *)
(* same path is in progress starts no second download.                     *)
(***************************************************************************)
C40_OneDownloadPerPath ==
    \A i \in 1..Len(fetches) :
        Cardinality(InFlight(filePathOf(fetches[i].imageUrl))) <= 1

\* two calls for the same url both await a download of their own
C40_TwoDownloadsInFlight ==
    /\ Len(fetches) = 2
    /\ fetches[1].imageUrl = fetches[2].imageUrl
    /\ InFlight(filePathOf(fetches[1].imageUrl)) = {1, 2}
    /\ tempFiles = {}

====
